---- MODULE Spec2Model ----
(***************************************************************************)
(* SoulTalk backend: the text analysis service                             *)
(* (services/text_analysis_service.py), the legacy AI engine               *)
(* (ai_engine.py), the vision service (services/vision_service.py) and     *)
(* the chat service (services/gemini_service.py).                          *)
(*                                                                         *)
(* Python strings are sequences of one-character strings, so that lower(), *)
(* strip(), len(), slicing and the substring test `k in s` are computed    *)
(* character by character.  Floats are integers in hundredths: 0.85 is 85; *)
(* in the vision service blendshape scores are thousandths and the         *)
(* confidences ten-thousandths.                                            *)
(*                                                                         *)
(* Spec, SpecFallback, SpecLong, SpecEngine, SpecBlend, SpecFace,          *)
(* SpecSeries and SpecChat run whole calls one after the other;            *)
(* SpecPipelineRace and SpecLandmarkerRace run the lazy loaders statement  *)
(* by statement on several threads.                                        *)
(***************************************************************************)
EXTENDS Integers, Sequences, FiniteSets, TLC

\* ------------------------------------------------------------- bounds
\* A text is the concatenation of at most MaxWords words of a vocabulary.
MaxWords == 2

\* The longest list of blendshapes given to the face classifier.
MaxShapes == 3

\* The number of threads that call into a service at the same time.
MaxThreads == 2

\* The most messages one chat session is sent.
MaxSent == 2

\* ------------------------------------------------ Python string helpers
\* str.lower() on ASCII: the upper-case letters and their lower-case forms.
CasePairs ==
  {<<"A", "a">>, <<"B", "b">>, <<"C", "c">>, <<"D", "d">>, <<"E", "e">>, <<"F", "f">>,
   <<"G", "g">>, <<"H", "h">>, <<"I", "i">>, <<"J", "j">>, <<"K", "k">>, <<"L", "l">>,
   <<"M", "m">>, <<"N", "n">>, <<"O", "o">>, <<"P", "p">>, <<"Q", "q">>, <<"R", "r">>,
   <<"S", "s">>, <<"T", "t">>, <<"U", "u">>, <<"V", "v">>, <<"W", "w">>, <<"X", "x">>,
   <<"Y", "y">>, <<"Z", "z">>}

LowerTable == [u \in {p[1] : p \in CasePairs} |-> (CHOOSE p \in CasePairs : p[1] = u)[2]]

LowerChar(c) == IF c \in DOMAIN LowerTable THEN LowerTable[c] ELSE c

\* s.lower()
Lower(s) == [i \in 1..Len(s) |-> LowerChar(s[i])]

\* The ASCII characters str.strip() removes.
Whitespace == {" ", "\t", "\n", "\r", "\f"}

RECURSIVE LStrip(_)
LStrip(s) == IF s # <<>> /\ Head(s) \in Whitespace THEN LStrip(Tail(s)) ELSE s

RECURSIVE RStrip(_)
RStrip(s) ==
  IF s # <<>> /\ s[Len(s)] \in Whitespace THEN RStrip(SubSeq(s, 1, Len(s) - 1)) ELSE s

\* s.strip()
Strip(s) == RStrip(LStrip(s))

\* k in s  (substring test)
Contains(s, k) ==
  \E i \in 1..(Len(s) - Len(k) + 1) : \A j \in 1..Len(k) : s[i + j - 1] = k[j]

\* s.startswith(p)
StartsWith(s, p) == Len(p) <= Len(s) /\ \A j \in 1..Len(p) : s[j] = p[j]

\* s[:n]
Prefix(s, n) == SubSeq(s, 1, IF Len(s) < n THEN Len(s) ELSE n)

\* ------------------------------------------------------------- lexicons
CRISIS_KEYWORDS ==
  << <<"s", "u", "i", "c", "i", "d", "e">>,
     <<"k", "i", "l", "l", " ", "m", "y", "s", "e", "l", "f">>,
     <<"k", "i", "l", "l", " ", "m", "e">>,
     <<"w", "a", "n", "t", " ", "t", "o", " ", "d", "i", "e">>,
     <<"e", "n", "d", " ", "m", "y", " ", "l", "i", "f", "e">>,
     <<"e", "n", "d", " ", "i", "t", " ", "a", "l", "l">>,
     <<"h", "u", "r", "t", " ", "m", "y", "s", "e", "l", "f">>,
     <<"s", "e", "l", "f", " ", "h", "a", "r", "m">>,
     <<"c", "u", "t", "t", "i", "n", "g", " ", "m", "y", "s", "e", "l", "f">>,
     <<"o", "v", "e", "r", "d", "o", "s", "e">>,
     <<"n", "o", "t", " ", "w", "o", "r", "t", "h", " ", "l", "i", "v", "i", "n", "g">>,
     <<"b", "e", "t", "t", "e", "r", " ", "o", "f", "f", " ", "d", "e", "a", "d">>,
     <<"n", "o", " ", "r", "e", "a", "s", "o", "n", " ", "t", "o", " ", "l", "i", "v", "e">>,
     <<"c", "a", "n", "'", "t", " ", "g", "o", " ", "o", "n">>,
     <<"g", "i", "v", "e", " ", "u", "p">>,
     <<"h", "o", "p", "e", "l", "e", "s", "s">>,
     <<"w", "o", "r", "t", "h", "l", "e", "s", "s">> >>

CRISIS_EMOTIONS ==
  << <<"f", "e", "a", "r">>,
     <<"s", "a", "d", "n", "e", "s", "s">>,
     <<"d", "i", "s", "g", "u", "s", "t">> >>

positive_words ==
  << <<"h", "a", "p", "p", "y">>,
     <<"g", "o", "o", "d">>,
     <<"g", "r", "e", "a", "t">>,
     <<"l", "o", "v", "e">>,
     <<"e", "x", "c", "e", "l", "l", "e", "n", "t">>,
     <<"w", "o", "n", "d", "e", "r", "f", "u", "l">>,
     <<"a", "m", "a", "z", "i", "n", "g">> >>

negative_words ==
  << <<"s", "a", "d">>,
     <<"b", "a", "d">>,
     <<"h", "a", "t", "e">>,
     <<"t", "e", "r", "r", "i", "b", "l", "e">>,
     <<"a", "w", "f", "u", "l">>,
     <<"h", "o", "r", "r", "i", "b", "l", "e">>,
     <<"a", "n", "g", "r", "y">> >>

crisis_keywords ==
  << <<"s", "u", "i", "c", "i", "d", "e">>,
     <<"k", "i", "l", "l", " ", "m", "y", "s", "e", "l", "f">>,
     <<"d", "i", "e">>,
     <<"e", "n", "d", " ", "i", "t">>,
     <<"h", "u", "r", "t", " ", "m", "y", "s", "e", "l", "f">>,
     <<"c", "u", "t", "t", "i", "n", "g">>,
     <<"o", "v", "e", "r", "d", "o", "s", "e">>,
     <<"d", "e", "p", "r", "e", "s", "s", "e", "d">>,
     <<"a", "n", "x", "i", "e", "t", "y">>,
     <<"h", "e", "l", "p", " ", "m", "e">>,
     <<"w", "a", "n", "t", " ", "t", "o", " ", "d", "i", "e">>,
     <<"n", "o", "t", " ", "w", "o", "r", "t", "h", " ", "l", "i", "v", "i", "n", "g">>,
     <<"e", "n", "d", " ", "m", "y", " ", "l", "i", "f", "e">> >>

emotion_keywords ==
  << [emotion |-> <<"j", "o", "y">>,
      keywords |-> << <<"h", "a", "p", "p", "y">>,
                     <<"g", "l", "a", "d">>,
                     <<"e", "x", "c", "i", "t", "e", "d">>,
                     <<"w", "o", "n", "d", "e", "r", "f", "u", "l">>,
                     <<"g", "r", "e", "a", "t">>,
                     <<"l", "o", "v", "e">> >>],
     [emotion |-> <<"s", "a", "d", "n", "e", "s", "s">>,
      keywords |-> << <<"s", "a", "d">>,
                     <<"d", "e", "p", "r", "e", "s", "s", "e", "d">>,
                     <<"u", "n", "h", "a", "p", "p", "y">>,
                     <<"m", "i", "s", "e", "r", "a", "b", "l", "e">>,
                     <<"c", "r", "y", "i", "n", "g">>,
                     <<"l", "o", "n", "e", "l", "y">> >>],
     [emotion |-> <<"a", "n", "g", "e", "r">>,
      keywords |-> << <<"a", "n", "g", "r", "y">>,
                     <<"f", "u", "r", "i", "o", "u", "s">>,
                     <<"m", "a", "d">>,
                     <<"a", "n", "n", "o", "y", "e", "d">>,
                     <<"f", "r", "u", "s", "t", "r", "a", "t", "e", "d">>,
                     <<"h", "a", "t", "e">> >>],
     [emotion |-> <<"f", "e", "a", "r">>,
      keywords |-> << <<"s", "c", "a", "r", "e", "d">>,
                     <<"a", "f", "r", "a", "i", "d">>,
                     <<"w", "o", "r", "r", "i", "e", "d">>,
                     <<"a", "n", "x", "i", "o", "u", "s">>,
                     <<"n", "e", "r", "v", "o", "u", "s">>,
                     <<"t", "e", "r", "r", "i", "f", "i", "e", "d">> >>],
     [emotion |-> <<"s", "u", "r", "p", "r", "i", "s", "e">>,
      keywords |-> << <<"s", "u", "r", "p", "r", "i", "s", "e", "d">>,
                     <<"s", "h", "o", "c", "k", "e", "d">>,
                     <<"a", "m", "a", "z", "e", "d">>,
                     <<"u", "n", "e", "x", "p", "e", "c", "t", "e", "d">>,
                     <<"w", "o", "w">> >>] >>

\* The string literals of the source.
s_positive == <<"p", "o", "s", "i", "t", "i", "v", "e">>
s_negative == <<"n", "e", "g", "a", "t", "i", "v", "e">>
s_neutral == <<"n", "e", "u", "t", "r", "a", "l">>
s_POSITIVE == <<"P", "O", "S", "I", "T", "I", "V", "E">>
s_NEGATIVE == <<"N", "E", "G", "A", "T", "I", "V", "E">>
s_NEUTRAL == <<"N", "E", "U", "T", "R", "A", "L">>
s_LABEL_0 == <<"L", "A", "B", "E", "L", "_", "0">>
s_LABEL_1 == <<"L", "A", "B", "E", "L", "_", "1">>
s_LABEL_2 == <<"L", "A", "B", "E", "L", "_", "2">>
s_keyword_ == <<"k", "e", "y", "w", "o", "r", "d", ":">>
s_emotion_ == <<"e", "m", "o", "t", "i", "o", "n", ":">>
s_1 == <<"1">>
s_true == <<"t", "r", "u", "e">>
s_crisis == <<"c", "r", "i", "s", "i", "s">>

\* Labels and predictions the predictors return.
s_Mixed == <<"M", "i", "x", "e", "d">>
s_joy == <<"j", "o", "y">>
s_sadness == <<"s", "a", "d", "n", "e", "s", "s">>
s_fear == <<"f", "e", "a", "r">>
s_Fear == <<"F", "e", "a", "r">>
s_disgust == <<"d", "i", "s", "g", "u", "s", "t">>
s_0 == <<"0">>
s_True == <<"T", "r", "u", "e">>
s_Crisis == <<"C", "r", "i", "s", "i", "s">>

\* The words the texts are made of; w_filler is 50 characters long.
w_space == <<" ">>
w_newline == <<"\n">>
w_Suicide == <<"S", "u", "i", "c", "i", "d", "e">>
w_worthless == <<"w", "o", "r", "t", "h", "l", "e", "s", "s">>
w_Unhappy == <<"U", "n", "h", "a", "p", "p", "y">>
w_sad == <<"s", "a", "d">>
w_HelpMe == <<"H", "e", "l", "p", " ", "M", "e">>
w_GoodLove == <<"G", "o", "o", "d", " ", "L", "o", "v", "e">>
w_BadHate == <<"b", "a", "d", " ", "H", "a", "t", "e">>
w_hello == <<"h", "e", "l", "l", "o">>
w_filler == <<"x", "x", "x", "x", "x", "x", "x", "x", "x", "x", "x", "x", "x", "x", "x", "x", "x", "x", "x", "x", "x", "x", "x", "x", "x", "x", "x", "x", "x", "x", "x", "x", "x", "x", "x", "x", "x", "x", "x", "x", "x", "x", "x", "x", "x", "x", "x", "x", "x", "x">>

\* None where a string is expected (a malformed predictor label).  No Python
\* string equals it: every element of a string is a single character.
PyNone == <<"None">>

\* ------------------------------------------------------ vocabularies
RECURSIVE Flatten(_)
Flatten(ws) == IF ws = <<>> THEN <<>> ELSE Head(ws) \o Flatten(Tail(ws))

\* Every text made of at most MaxWords words of the vocabulary V.
TextsOver(V) == {Flatten(ws) : ws \in UNION {[1..n -> V] : n \in 0..MaxWords}}

\* Texts given to detect_crisis and analyze_text_complete.
ServiceVocabulary == {w_space, w_Suicide, w_worthless, w_sad, w_filler}
ServiceTexts == TextsOver(ServiceVocabulary)

\* Texts given to analyze_sentiment and analyze_emotion.
FallbackVocabulary == {w_space, w_Unhappy, w_sad, w_GoodLove, w_BadHate, w_hello}
FallbackTexts == TextsOver(FallbackVocabulary)

\* Texts given to the legacy AI engine.
EngineVocabulary == {w_newline, w_Suicide, w_worthless, w_HelpMe, w_hello}
EngineTexts == TextsOver(EngineVocabulary)

\* --------------------------------------------------- program constants
TruncateLen == 512
EmotionThreshold == 70
EmotionLengthGate == 50

\* n filler characters.
Pad(n) == [i \in 1..n |-> "x"]

\* Texts around the truncation length: a word wholly behind the first
\* TruncateLen characters, a word across the cut, a word that ends at the cut,
\* a text of the truncation length and short texts.
LongTexts ==
  {Pad(TruncateLen) \o w : w \in {w_Suicide, w_sad, w_Unhappy, w_hello}}
  \cup {Pad(TruncateLen - 1) \o w_sad, Pad(TruncateLen - Len(w_sad)) \o w_sad,
        Pad(TruncateLen - 1) \o w_Suicide, Pad(TruncateLen), w_sad, w_Suicide}

\* ------------------------------------------------ lazy model loading
\* What the first-use load of a HuggingFace pipeline does: the transformers
\* package is absent (the import raises), the model fails to load
\* (pipeline(...) raises), or the model loads.
LoadOutcomes == {"absent", "load_error", "ok"}

\* The module-level handle: None, the string "failed", or a loaded pipeline.
PipelineStates == {"None", "failed", "pipe"}

\* A faulty variant of _get_emotion_pipeline: a failed load leaves the handle None.
_get_emotion_pipeline_RetriesAfterFailure(handle, load) ==
  IF handle = "None" THEN (IF load = "ok" THEN "pipe" ELSE "None") ELSE handle

\* The handle after the call.
_get_sentiment_pipeline(handle, load) ==
  IF handle = "None" THEN (IF load = "ok" THEN "pipe" ELSE "failed") ELSE handle

_get_emotion_pipeline(handle, load) ==
  IF handle = "None" THEN (IF load = "ok" THEN "pipe" ELSE "failed") ELSE handle

\* Why a call found no usable predictor handle.
UnavailableCause(handle, load) == IF handle = "None" THEN load ELSE "unavailable"

\* A faulty variant of IsBlank: only `not text`, the whitespace-only text passes.
IsBlank_NoStrip(text) == text = <<>>

\* not text or len(text.strip()) == 0
IsBlank(text) == text = <<>> \/ Len(Strip(text)) = 0

\* A faulty variant of CountHits: any(...) in place of sum(...), one hit at most.
CountHits_AnyHit(words, s) ==
  IF \E i \in 1..Len(words) : Contains(s, words[i]) THEN 1 ELSE 0

\* sum(1 for w in words if w in s)
CountHits(words, s) == Cardinality({i \in 1..Len(words) : Contains(s, words[i])})

\* -------------------------------------------------- analyze_sentiment
\* What pipeline(text[:512]) does in one call: it raises, or returns a
\* (label, score); a label of None and a score that is not a number are the
\* malformed results.
SentimentOutcomes ==
  { [kind |-> "raise", label |-> PyNone, score |-> 0],
    [kind |-> "ok", label |-> s_LABEL_0, score |-> 90],
    [kind |-> "ok", label |-> s_Mixed, score |-> 120],
    [kind |-> "bad_label", label |-> PyNone, score |-> 90],
    [kind |-> "bad_score", label |-> s_POSITIVE, score |-> 0] }

label_map ==
  << <<s_positive, s_positive>>, <<s_negative, s_negative>>, <<s_neutral, s_neutral>>,
     <<s_POSITIVE, s_positive>>, <<s_NEGATIVE, s_negative>>, <<s_NEUTRAL, s_neutral>>,
     <<s_LABEL_0, s_negative>>, <<s_LABEL_1, s_neutral>>, <<s_LABEL_2, s_positive>> >>

\* label_map.get(label, label.lower())
MapLabel(label) ==
  IF \E i \in 1..Len(label_map) : label_map[i][1] = label
  THEN label_map[CHOOSE i \in 1..Len(label_map) : label_map[i][1] = label][2]
  ELSE Lower(label)

\* A faulty variant of SentimentFallback: the scores on a percent scale.
SentimentFallback_PercentScore(text) ==
  LET text_lower == Lower(text)
      pos_count == CountHits(positive_words, text_lower)
      neg_count == CountHits(negative_words, text_lower)
  IN  IF pos_count > neg_count
      THEN [label |-> s_positive, score |-> 6000, source |-> "fallback"]
      ELSE IF neg_count > pos_count
      THEN [label |-> s_negative, score |-> 6000, source |-> "fallback"]
      ELSE [label |-> s_neutral, score |-> 5000, source |-> "fallback"]

\* Lines 110-123: the keyword fallback of analyze_sentiment.
SentimentFallback(text) ==
  LET text_lower == Lower(text)
      pos_count == CountHits(positive_words, text_lower)
      neg_count == CountHits(negative_words, text_lower)
  IN  IF pos_count > neg_count
      THEN [label |-> s_positive, score |-> 60, source |-> "fallback"]
      ELSE IF neg_count > pos_count
      THEN [label |-> s_negative, score |-> 60, source |-> "fallback"]
      ELSE [label |-> s_neutral, score |-> 50, source |-> "fallback"]

\* A faulty variant of analyze_sentiment: an exception of the predictor returns the
\* neutral default at once, without the keyword count.
analyze_sentiment_RaiseGivesNeutral(text, handle, load, out) ==
  IF IsBlank(text)
  THEN [value |-> [label |-> s_neutral, score |-> 50, source |-> "empty"],
        handle |-> handle, cause |-> "empty", given |-> PyNone]
  ELSE LET pipeline == _get_sentiment_pipeline(handle, load) IN
       IF pipeline = "pipe"
       THEN IF out.kind = "ok"
            THEN [value |-> [label |-> MapLabel(out.label), score |-> out.score,
                             source |-> "huggingface"],
                  handle |-> pipeline, cause |-> "ok",
                  given |-> Prefix(text, TruncateLen)]
            ELSE [value |-> [label |-> s_neutral, score |-> 50, source |-> "fallback"],
                  handle |-> pipeline, cause |-> "raised",
                  given |-> Prefix(text, TruncateLen)]
       ELSE [value |-> SentimentFallback(text), handle |-> pipeline,
             cause |-> UnavailableCause(handle, load), given |-> PyNone]

\* analyze_sentiment(text) with the handle `handle` before the call, `load`
\* what a first-use load does and `out` what the predictor does.  Returns the
\* result, the handle after the call, how the predictor behaved (`cause`)
\* and the text given to the predictor (`given`, PyNone when it is not called).
analyze_sentiment(text, handle, load, out) ==
  IF IsBlank(text)
  THEN [value |-> [label |-> s_neutral, score |-> 50, source |-> "empty"],
        handle |-> handle, cause |-> "empty", given |-> PyNone]
  ELSE LET pipeline == _get_sentiment_pipeline(handle, load) IN
       IF pipeline = "pipe"
       THEN IF out.kind = "ok"
            THEN [value |-> [label |-> MapLabel(out.label), score |-> out.score,
                             source |-> "huggingface"],
                  handle |-> pipeline, cause |-> "ok",
                  given |-> Prefix(text, TruncateLen)]
            ELSE [value |-> SentimentFallback(text), handle |-> pipeline,
                  cause |-> "raised", given |-> Prefix(text, TruncateLen)]
       ELSE [value |-> SentimentFallback(text), handle |-> pipeline,
             cause |-> UnavailableCause(handle, load), given |-> PyNone]

\* ---------------------------------------------------- analyze_emotion
\* What pipeline(text[:512])[0] is in one call: the call raises, or gives a
\* list of (label, score) entries, or a single (label, score).
EmotionOutcomes ==
  { [kind |-> "raise", entries |-> <<>>],
    [kind |-> "list", entries |-> << [label |-> s_joy, score |-> 20],
                                     [label |-> s_sadness, score |-> 71] >>],
    [kind |-> "list", entries |-> << [label |-> s_sadness, score |-> 70],
                                     [label |-> s_joy, score |-> 30] >>],
    [kind |-> "list", entries |-> <<>>],
    [kind |-> "single", entries |-> << [label |-> s_Fear, score |-> 95] >>],
    [kind |-> "single", entries |-> << [label |-> s_joy, score |-> 95] >>],
    [kind |-> "single", entries |-> << [label |-> s_disgust, score |-> 130] >>],
    [kind |-> "single", entries |-> << [label |-> PyNone, score |-> 95] >>],
    [kind |-> "bad_score", entries |-> << [label |-> s_sadness, score |-> 0] >>] }

\* A faulty variant of MaxByScore: the first entry is taken as the top one.
MaxByScore_First(results) == results[1]

\* max(results, key=lambda x: x["score"]): the first entry of maximal score.
MaxByScore(results) ==
  results[CHOOSE i \in 1..Len(results) :
            /\ \A j \in 1..Len(results) : results[j].score <= results[i].score
            /\ \A j \in 1..(i - 1) : results[j].score < results[i].score]

\* {r["label"]: r["score"] for r in results}: a later entry overwrites.
EmotionsDict(results) ==
  [l \in {results[i].label : i \in 1..Len(results)} |->
     results[CHOOSE i \in 1..Len(results) :
               /\ results[i].label = l
               /\ \A j \in (i + 1)..Len(results) : results[j].label # l].score]

\* The predictor call and the lines 140-153 complete without an exception.
EmotionPredictorSucceeds(out) ==
  \/ out.kind = "list" /\ out.entries # <<>>
  \/ out.kind = "single"

\* A faulty variant of EmotionFallback: the category with the most keyword hits
\* wins, the first declared one among equals.
EmotionFallback_MostHits(text) ==
  LET text_lower == Lower(text)
      hits(i) == Cardinality({k \in 1..Len(emotion_keywords[i].keywords) :
                   Contains(text_lower, emotion_keywords[i].keywords[k])})
      best(i) == /\ hits(i) > 0
                 /\ \A j \in 1..Len(emotion_keywords) :
                      hits(j) < hits(i) \/ (hits(j) = hits(i) /\ j >= i)
  IN  IF \E i \in 1..Len(emotion_keywords) : best(i)
      THEN [emotion |-> emotion_keywords[
                          CHOOSE i \in 1..Len(emotion_keywords) : best(i)].emotion,
            confidence |-> 60, all_emotions |-> <<>>, source |-> "fallback"]
      ELSE [emotion |-> s_neutral, confidence |-> 50, all_emotions |-> <<>>,
            source |-> "fallback"]

\* A faulty variant of EmotionFallback: the scan sees the truncated text only.
EmotionFallback_OnPrefix(text) ==
  LET text_lower == Lower(Prefix(text, TruncateLen))
      hit(i) == \E k \in 1..Len(emotion_keywords[i].keywords) :
                   Contains(text_lower, emotion_keywords[i].keywords[k])
  IN  IF \E i \in 1..Len(emotion_keywords) : hit(i)
      THEN [emotion |-> emotion_keywords[
                          CHOOSE i \in 1..Len(emotion_keywords) :
                            hit(i) /\ \A j \in 1..(i - 1) : ~hit(j)].emotion,
            confidence |-> 60, all_emotions |-> <<>>, source |-> "fallback"]
      ELSE [emotion |-> s_neutral, confidence |-> 50, all_emotions |-> <<>>,
            source |-> "fallback"]

\* A faulty variant of EmotionFallback: a keyword hit is reported with confidence 0.8.
EmotionFallback_Confident(text) ==
  LET text_lower == Lower(text)
      hit(i) == \E k \in 1..Len(emotion_keywords[i].keywords) :
                   Contains(text_lower, emotion_keywords[i].keywords[k])
  IN  IF \E i \in 1..Len(emotion_keywords) : hit(i)
      THEN [emotion |-> emotion_keywords[
                          CHOOSE i \in 1..Len(emotion_keywords) :
                            hit(i) /\ \A j \in 1..(i - 1) : ~hit(j)].emotion,
            confidence |-> 80, all_emotions |-> <<>>, source |-> "fallback"]
      ELSE [emotion |-> s_neutral, confidence |-> 50, all_emotions |-> <<>>,
            source |-> "fallback"]

\* Lines 157-171: the keyword fallback of analyze_emotion.
EmotionFallback(text) ==
  LET text_lower == Lower(text)
      hit(i) == \E k \in 1..Len(emotion_keywords[i].keywords) :
                   Contains(text_lower, emotion_keywords[i].keywords[k])
  IN  IF \E i \in 1..Len(emotion_keywords) : hit(i)
      THEN [emotion |-> emotion_keywords[
                          CHOOSE i \in 1..Len(emotion_keywords) :
                            hit(i) /\ \A j \in 1..(i - 1) : ~hit(j)].emotion,
            confidence |-> 60, all_emotions |-> <<>>, source |-> "fallback"]
      ELSE [emotion |-> s_neutral, confidence |-> 50, all_emotions |-> <<>>,
            source |-> "fallback"]

\* A faulty variant of analyze_emotion: a load that fails on this call returns the
\* neutral default at once; only the cached failure reaches the keyword scan.
analyze_emotion_FirstFailureGivesNeutral(text, handle, load, out) ==
  IF IsBlank(text)
  THEN [value |-> [emotion |-> s_neutral, confidence |-> 50, all_emotions |-> <<>>,
                   source |-> "empty"],
        handle |-> handle, cause |-> "empty", given |-> PyNone]
  ELSE LET pipeline == _get_emotion_pipeline(handle, load) IN
       IF pipeline = "pipe"
       THEN IF EmotionPredictorSucceeds(out)
            THEN LET top_emotion == MaxByScore(out.entries) IN
                 [value |-> [emotion |-> top_emotion.label,
                             confidence |-> top_emotion.score,
                             all_emotions |-> EmotionsDict(out.entries),
                             source |-> "huggingface"],
                  handle |-> pipeline, cause |-> "ok",
                  given |-> Prefix(text, TruncateLen)]
            ELSE [value |-> EmotionFallback(text), handle |-> pipeline,
                  cause |-> "raised", given |-> Prefix(text, TruncateLen)]
       ELSE IF handle = "None"
       THEN [value |-> [emotion |-> s_neutral, confidence |-> 50,
                        all_emotions |-> <<>>, source |-> "fallback"],
             handle |-> pipeline, cause |-> load, given |-> PyNone]
       ELSE [value |-> EmotionFallback(text), handle |-> pipeline,
             cause |-> "unavailable", given |-> PyNone]

analyze_emotion(text, handle, load, out) ==
  IF IsBlank(text)
  THEN [value |-> [emotion |-> s_neutral, confidence |-> 50, all_emotions |-> <<>>,
                   source |-> "empty"],
        handle |-> handle, cause |-> "empty", given |-> PyNone]
  ELSE LET pipeline == _get_emotion_pipeline(handle, load) IN
       IF pipeline = "pipe"
       THEN IF EmotionPredictorSucceeds(out)
            THEN LET top_emotion == MaxByScore(out.entries) IN
                 [value |-> [emotion |-> top_emotion.label,
                             confidence |-> top_emotion.score,
                             all_emotions |-> EmotionsDict(out.entries),
                             source |-> "huggingface"],
                  handle |-> pipeline, cause |-> "ok",
                  given |-> Prefix(text, TruncateLen)]
            ELSE [value |-> EmotionFallback(text), handle |-> pipeline,
                  cause |-> "raised", given |-> Prefix(text, TruncateLen)]
       ELSE [value |-> EmotionFallback(text), handle |-> pipeline,
             cause |-> UnavailableCause(handle, load), given |-> PyNone]

\* ------------------------------------------------------ detect_crisis
\* emotion_result=None
NoEmotionResult == [source |-> "absent"]

\* A faulty variant of KeywordTriggers: the scan stops one entry short of the lexicon.
KeywordTriggers_SkipsLast(text_lower) ==
  LET matches(keyword) == Contains(text_lower, keyword)
      matched == SelectSeq(SubSeq(CRISIS_KEYWORDS, 1, Len(CRISIS_KEYWORDS) - 1), matches)
  IN  [i \in 1..Len(matched) |-> s_keyword_ \o matched[i]]

\* A faulty variant of KeywordTriggers: the lexicon is walked from its last entry.
KeywordTriggers_ReverseOrder(text_lower) ==
  LET matches(keyword) == Contains(text_lower, keyword)
      matched == SelectSeq(CRISIS_KEYWORDS, matches)
  IN  [i \in 1..Len(matched) |-> s_keyword_ \o matched[Len(matched) + 1 - i]]

\* Lines 193-196: the matched keywords, in the order of CRISIS_KEYWORDS.
KeywordTriggers(text_lower) ==
  LET matches(keyword) == Contains(text_lower, keyword)
      matched == SelectSeq(CRISIS_KEYWORDS, matches)
  IN  [i \in 1..Len(matched) |-> s_keyword_ \o matched[i]]

\* A faulty variant of EmotionSignal: a confidence of exactly 0.7 passes.
EmotionSignal_AtThreshold(emotion, confidence) ==
  /\ \E i \in 1..Len(CRISIS_EMOTIONS) : CRISIS_EMOTIONS[i] = emotion
  /\ confidence >= EmotionThreshold

\* emotion in CRISIS_EMOTIONS and confidence > 0.7
EmotionSignal(emotion, confidence) ==
  /\ \E i \in 1..Len(CRISIS_EMOTIONS) : CRISIS_EMOTIONS[i] = emotion
  /\ confidence > EmotionThreshold

\* A faulty variant of CrisisDecision: a verdict that is no crisis keeps the
\* collected triggers.
CrisisDecision_NoCrisisKeepsTriggers(text, triggers) ==
  LET keyword_match == \E i \in 1..Len(triggers) : StartsWith(triggers[i], s_keyword_)
      emotion_match == \E i \in 1..Len(triggers) : StartsWith(triggers[i], s_emotion_)
  IN  IF keyword_match /\ emotion_match
      THEN [is_crisis |-> TRUE, confidence |-> 95, triggers |-> triggers,
            source |-> "combined"]
      ELSE IF keyword_match
      THEN [is_crisis |-> TRUE, confidence |-> 85, triggers |-> triggers,
            source |-> "keyword"]
      ELSE IF emotion_match /\ Len(text) > EmotionLengthGate
      THEN [is_crisis |-> TRUE, confidence |-> 60, triggers |-> triggers,
            source |-> "emotion"]
      ELSE [is_crisis |-> FALSE, confidence |-> 10, triggers |-> triggers,
            source |-> "none"]

\* A faulty variant of CrisisDecision: the length gate lets a text of exactly 50
\* characters through.
CrisisDecision_GateInclusive(text, triggers) ==
  LET keyword_match == \E i \in 1..Len(triggers) : StartsWith(triggers[i], s_keyword_)
      emotion_match == \E i \in 1..Len(triggers) : StartsWith(triggers[i], s_emotion_)
  IN  IF keyword_match /\ emotion_match
      THEN [is_crisis |-> TRUE, confidence |-> 95, triggers |-> triggers,
            source |-> "combined"]
      ELSE IF keyword_match
      THEN [is_crisis |-> TRUE, confidence |-> 85, triggers |-> triggers,
            source |-> "keyword"]
      ELSE IF emotion_match /\ Len(text) >= EmotionLengthGate
      THEN [is_crisis |-> TRUE, confidence |-> 60, triggers |-> triggers,
            source |-> "emotion"]
      ELSE [is_crisis |-> FALSE, confidence |-> 10, triggers |-> <<>>,
            source |-> "none"]

\* A faulty variant of CrisisDecision: the emotion-only verdict reports the keyword
\* triggers alone.
CrisisDecision_KeywordTriggersOnly(text, triggers) ==
  LET keyword_match == \E i \in 1..Len(triggers) : StartsWith(triggers[i], s_keyword_)
      emotion_match == \E i \in 1..Len(triggers) : StartsWith(triggers[i], s_emotion_)
      is_keyword(t) == StartsWith(t, s_keyword_)
  IN  IF keyword_match /\ emotion_match
      THEN [is_crisis |-> TRUE, confidence |-> 95, triggers |-> triggers,
            source |-> "combined"]
      ELSE IF keyword_match
      THEN [is_crisis |-> TRUE, confidence |-> 85, triggers |-> triggers,
            source |-> "keyword"]
      ELSE IF emotion_match /\ Len(text) > EmotionLengthGate
      THEN [is_crisis |-> TRUE, confidence |-> 60,
            triggers |-> SelectSeq(triggers, is_keyword), source |-> "emotion"]
      ELSE [is_crisis |-> FALSE, confidence |-> 10, triggers |-> <<>>,
            source |-> "none"]

\* Lines 205-216: the decision over the collected triggers.
CrisisDecision(text, triggers) ==
  LET keyword_match == \E i \in 1..Len(triggers) : StartsWith(triggers[i], s_keyword_)
      emotion_match == \E i \in 1..Len(triggers) : StartsWith(triggers[i], s_emotion_)
  IN  IF keyword_match /\ emotion_match
      THEN [is_crisis |-> TRUE, confidence |-> 95, triggers |-> triggers,
            source |-> "combined"]
      ELSE IF keyword_match
      THEN [is_crisis |-> TRUE, confidence |-> 85, triggers |-> triggers,
            source |-> "keyword"]
      ELSE IF emotion_match /\ Len(text) > EmotionLengthGate
      THEN [is_crisis |-> TRUE, confidence |-> 60, triggers |-> triggers,
            source |-> "emotion"]
      ELSE [is_crisis |-> FALSE, confidence |-> 10, triggers |-> <<>>,
            source |-> "none"]

\* detect_crisis(text, emotion_result).  `raised` tells that the call ended in
\* an exception (emotion_result["emotion"] has no lower()); `steps` lists the
\* sub-steps that ran and `collected` is the local list `triggers` when the
\* call ended.
detect_crisis(text, emotion_result) ==
  IF IsBlank(text)
  THEN [raised |-> FALSE, steps |-> <<>>, collected |-> <<>>,
        value |-> [is_crisis |-> FALSE, confidence |-> 0, triggers |-> <<>>,
                   source |-> "empty"]]
  ELSE LET text_lower == Lower(text)
           keywords == KeywordTriggers(text_lower)
       IN  IF emotion_result = NoEmotionResult
           THEN [raised |-> FALSE, steps |-> <<"keywords">>, collected |-> keywords,
                 value |-> CrisisDecision(text, keywords)]
           ELSE IF emotion_result.emotion = PyNone
           THEN [raised |-> TRUE, steps |-> <<"keywords", "emotion">>,
                 collected |-> keywords]
           ELSE LET emotion == Lower(emotion_result.emotion)
                    confidence == emotion_result.confidence
                    triggers == IF EmotionSignal(emotion, confidence)
                                THEN Append(keywords, s_emotion_ \o emotion)
                                ELSE keywords
                IN  [raised |-> FALSE, steps |-> <<"keywords", "emotion">>,
                     collected |-> triggers,
                     value |-> CrisisDecision(text, triggers)]

\* ----------------------------------------------- analyze_text_complete
EchoLen == 100

s_ellipsis == <<".", ".", ".">>

\* The predictor invocations of one analyze_sentiment or analyze_emotion call:
\* pipeline(text[:512]) is evaluated once when a handle was obtained, and not
\* at all otherwise.
PredictorCalls(name, result) ==
  IF result.given = PyNone THEN <<>> ELSE <<name>>

\* A faulty variant of analyze_text_complete: detect_crisis is called without
\* the emotion result.
analyze_text_complete_CrisisWithoutEmotion(text, sentiment_handle, emotion_handle, sload, eload, sout, eout) ==
  LET sentiment_result == analyze_sentiment(text, sentiment_handle, sload, sout)
      emotion_result == analyze_emotion(text, emotion_handle, eload, eout)
      crisis_result == detect_crisis(text, NoEmotionResult)
  IN  [raised |-> crisis_result.raised,
       trace |-> <<"analyze_sentiment">> \o PredictorCalls("sentiment_pipeline", sentiment_result)
                 \o <<"analyze_emotion">> \o PredictorCalls("emotion_pipeline", emotion_result)
                 \o <<"detect_crisis">> \o crisis_result.steps,
       consumed |-> NoEmotionResult,
       sentiment_handle |-> sentiment_result.handle,
       emotion_handle |-> emotion_result.handle,
       sentiment_cause |-> sentiment_result.cause,
       emotion_cause |-> emotion_result.cause,
       value |->
         IF crisis_result.raised THEN [source |-> "exception"]
         ELSE [text |-> IF Len(text) > EchoLen
                        THEN Prefix(text, EchoLen) \o s_ellipsis ELSE text,
               sentiment |-> sentiment_result.value.label,
               sentiment_score |-> sentiment_result.value.score,
               emotion |-> emotion_result.value.emotion,
               emotion_confidence |-> emotion_result.value.confidence,
               is_crisis |-> crisis_result.value.is_crisis,
               crisis_confidence |-> crisis_result.value.confidence,
               crisis_triggers |-> crisis_result.value.triggers,
               sources |-> [sentiment |-> sentiment_result.value.source,
                            emotion |-> emotion_result.value.source,
                            crisis |-> crisis_result.value.source]]]

\* analyze_text_complete(text): the sentiment, then the emotion, then the
\* crisis result, assembled into one dictionary; an exception of detect_crisis
\* propagates.  `trace` lists the calls made, in order, and `consumed` is the
\* emotion result handed to detect_crisis.
analyze_text_complete(text, sentiment_handle, emotion_handle, sload, eload, sout, eout) ==
  LET sentiment_result == analyze_sentiment(text, sentiment_handle, sload, sout)
      emotion_result == analyze_emotion(text, emotion_handle, eload, eout)
      crisis_result == detect_crisis(text, emotion_result.value)
  IN  [raised |-> crisis_result.raised,
       trace |-> <<"analyze_sentiment">> \o PredictorCalls("sentiment_pipeline", sentiment_result)
                 \o <<"analyze_emotion">> \o PredictorCalls("emotion_pipeline", emotion_result)
                 \o <<"detect_crisis">> \o crisis_result.steps,
       consumed |-> emotion_result.value,
       sentiment_handle |-> sentiment_result.handle,
       emotion_handle |-> emotion_result.handle,
       sentiment_cause |-> sentiment_result.cause,
       emotion_cause |-> emotion_result.cause,
       value |->
         IF crisis_result.raised THEN [source |-> "exception"]
         ELSE [text |-> IF Len(text) > EchoLen
                        THEN Prefix(text, EchoLen) \o s_ellipsis ELSE text,
               sentiment |-> sentiment_result.value.label,
               sentiment_score |-> sentiment_result.value.score,
               emotion |-> emotion_result.value.emotion,
               emotion_confidence |-> emotion_result.value.confidence,
               is_crisis |-> crisis_result.value.is_crisis,
               crisis_confidence |-> crisis_result.value.confidence,
               crisis_triggers |-> crisis_result.value.triggers,
               sources |-> [sentiment |-> sentiment_result.value.source,
                            emotion |-> emotion_result.value.source,
                            crisis |-> crisis_result.value.source]]]

\* ---------------------------------------------- AIEngine (ai_engine.py)
\* What crisis_model.predict([text])[0] does: it raises, or returns a
\* prediction, given here by str(pred).
CrisisModelOutcomes ==
  { [kind |-> "raise", str |-> <<>>],
    [kind |-> "ok", str |-> s_1],
    [kind |-> "ok", str |-> s_0],
    [kind |-> "ok", str |-> s_True],
    [kind |-> "ok", str |-> s_crisis],
    [kind |-> "ok", str |-> s_Crisis],
    [kind |-> "ok", str |-> <<"T", "R", "U", "E">>],
    [kind |-> "ok", str |-> <<"1", ".", "0">>] }

\* What sentiment_model.predict and emotion_model.predict do.
LabelModelOutcomes ==
  { [kind |-> "raise", label |-> "Neutral"], [kind |-> "ok", label |-> "Negative"] }

NotCalled == [kind |-> "not_called"]

\* A faulty variant of IsPositiveClass: every comparison ignores case.
IsPositiveClass_LowerEverywhere(str) == Lower(str) \in {s_1, s_true, s_crisis}

\* Line 83: the predictions that count as the positive class.
IsPositiveClass(str) == str = s_1 \/ Lower(str) = s_true \/ str = s_crisis

\* Line 89: any(k in text.lower() for k in self.crisis_keywords)
EngineKeywordHit(text) ==
  \E i \in 1..Len(crisis_keywords) : Contains(Lower(text), crisis_keywords[i])

\* AIEngine.analyze_text(text); smodel/emodel/cmodel are the three model
\* attributes the constructor set, sout/eout/cout what each loaded model does when called.
AIEngine_analyze_text(text, smodel, emodel, cmodel, sout, eout, cout) ==
  IF text = <<>>
  THEN [sentiment |-> "Neutral", emotion |-> "Neutral", is_crisis |-> FALSE,
        confidence |-> 0]
  ELSE [sentiment |-> IF smodel = "model" /\ sout.kind = "ok"
                      THEN sout.label ELSE "Neutral",
        emotion |-> IF emodel = "model" /\ eout.kind = "ok"
                    THEN eout.label ELSE "Neutral",
        is_crisis |-> IF cmodel = "model"
                      THEN cout.kind = "ok" /\ IsPositiveClass(cout.str)
                      ELSE EngineKeywordHit(text),
        confidence |-> 0]

\* ------------------------------------- vision_service.py: the classifier
\* A blendshape of MediaPipe: shape.category_name and shape.score.  Scores are
\* in thousandths (0.3 = 300) and even, so that the half of a sum is exact;
\* the confidences of the face results are in ten-thousandths (0.72 = 7200).
Shape(name, score) == [category_name |-> name, score |-> score]

\* The categories _blendshapes_to_emotion reads, and one it does not read.
BlendshapeNames ==
  {"mouthSmileLeft", "mouthSmileRight", "mouthFrownLeft", "mouthFrownRight",
   "browDownLeft", "browDownRight", "browInnerUp", "jawOpen",
   "eyeWideLeft", "eyeWideRight", "eyeSquintLeft", "eyeSquintRight",
   "tongueOut"}

\* Lines 119-121 and shapes.get(name, 0): the loop stores each score under its
\* category name, a later entry replacing an earlier one; a missing name reads 0.
shapes_get(blendshapes, name) ==
  LET named == {i \in 1..Len(blendshapes) : blendshapes[i].category_name = name}
  IN  IF named = {} THEN 0
      ELSE blendshapes[CHOOSE i \in named : \A j \in named : j <= i].score

\* min(a, b)
min(a, b) == IF a < b THEN a ELSE b

\* A faulty variant of _blendshapes_to_emotion: the 'fearful' rule is tried before
\* the 'surprised' rule.
_blendshapes_to_emotion_FearfulFirst(blendshapes) ==
  LET smile == (shapes_get(blendshapes, "mouthSmileLeft")
                + shapes_get(blendshapes, "mouthSmileRight")) \div 2
      frown == (shapes_get(blendshapes, "mouthFrownLeft")
                + shapes_get(blendshapes, "mouthFrownRight")) \div 2
      brow_down == (shapes_get(blendshapes, "browDownLeft")
                    + shapes_get(blendshapes, "browDownRight")) \div 2
      brow_up == shapes_get(blendshapes, "browInnerUp")
      jaw_open == shapes_get(blendshapes, "jawOpen")
      eye_wide == (shapes_get(blendshapes, "eyeWideLeft")
                   + shapes_get(blendshapes, "eyeWideRight")) \div 2
      eye_squint == (shapes_get(blendshapes, "eyeSquintLeft")
                     + shapes_get(blendshapes, "eyeSquintRight")) \div 2
  IN  IF smile > 300 /\ eye_squint > 200
      THEN [emotion |-> "happy", confidence |-> min(5000 + 10 * smile, 10000)]
      ELSE IF frown > 300
      THEN [emotion |-> "sad", confidence |-> 6000 + 3 * frown]
      ELSE IF brow_down > 300
      THEN [emotion |-> "angry", confidence |-> 6000 + 3 * brow_down]
      ELSE IF brow_up > 300 /\ eye_wide > 200
      THEN [emotion |-> "fearful", confidence |-> 6000]
      ELSE IF jaw_open > 400 /\ eye_wide > 300
      THEN [emotion |-> "surprised", confidence |-> 7000]
      ELSE IF smile > 150
      THEN [emotion |-> "happy", confidence |-> 5000 + 5 * smile]
      ELSE IF frown > 150
      THEN [emotion |-> "sad", confidence |-> 5000]
      ELSE [emotion |-> "neutral", confidence |-> 5000]

\* A faulty variant of _blendshapes_to_emotion: 'sad' is returned with 0.6 + frown * 0.5.
_blendshapes_to_emotion_SteepSad(blendshapes) ==
  LET smile == (shapes_get(blendshapes, "mouthSmileLeft")
                + shapes_get(blendshapes, "mouthSmileRight")) \div 2
      frown == (shapes_get(blendshapes, "mouthFrownLeft")
                + shapes_get(blendshapes, "mouthFrownRight")) \div 2
      brow_down == (shapes_get(blendshapes, "browDownLeft")
                    + shapes_get(blendshapes, "browDownRight")) \div 2
      brow_up == shapes_get(blendshapes, "browInnerUp")
      jaw_open == shapes_get(blendshapes, "jawOpen")
      eye_wide == (shapes_get(blendshapes, "eyeWideLeft")
                   + shapes_get(blendshapes, "eyeWideRight")) \div 2
      eye_squint == (shapes_get(blendshapes, "eyeSquintLeft")
                     + shapes_get(blendshapes, "eyeSquintRight")) \div 2
  IN  IF smile > 300 /\ eye_squint > 200
      THEN [emotion |-> "happy", confidence |-> min(5000 + 10 * smile, 10000)]
      ELSE IF frown > 300
      THEN [emotion |-> "sad", confidence |-> 6000 + 5 * frown]
      ELSE IF brow_down > 300
      THEN [emotion |-> "angry", confidence |-> 6000 + 3 * brow_down]
      ELSE IF jaw_open > 400 /\ eye_wide > 300
      THEN [emotion |-> "surprised", confidence |-> 7000]
      ELSE IF brow_up > 300 /\ eye_wide > 200
      THEN [emotion |-> "fearful", confidence |-> 6000]
      ELSE IF smile > 150
      THEN [emotion |-> "happy", confidence |-> 5000 + 5 * smile]
      ELSE IF frown > 150
      THEN [emotion |-> "sad", confidence |-> 5000]
      ELSE [emotion |-> "neutral", confidence |-> 5000]

\* _blendshapes_to_emotion(blendshapes): the tuple (emotion, confidence).
_blendshapes_to_emotion(blendshapes) ==
  LET smile == (shapes_get(blendshapes, "mouthSmileLeft")
                + shapes_get(blendshapes, "mouthSmileRight")) \div 2
      frown == (shapes_get(blendshapes, "mouthFrownLeft")
                + shapes_get(blendshapes, "mouthFrownRight")) \div 2
      brow_down == (shapes_get(blendshapes, "browDownLeft")
                    + shapes_get(blendshapes, "browDownRight")) \div 2
      brow_up == shapes_get(blendshapes, "browInnerUp")
      jaw_open == shapes_get(blendshapes, "jawOpen")
      eye_wide == (shapes_get(blendshapes, "eyeWideLeft")
                   + shapes_get(blendshapes, "eyeWideRight")) \div 2
      eye_squint == (shapes_get(blendshapes, "eyeSquintLeft")
                     + shapes_get(blendshapes, "eyeSquintRight")) \div 2
  IN  IF smile > 300 /\ eye_squint > 200
      THEN [emotion |-> "happy", confidence |-> min(5000 + 10 * smile, 10000)]
      ELSE IF frown > 300
      THEN [emotion |-> "sad", confidence |-> 6000 + 3 * frown]
      ELSE IF brow_down > 300
      THEN [emotion |-> "angry", confidence |-> 6000 + 3 * brow_down]
      ELSE IF jaw_open > 400 /\ eye_wide > 300
      THEN [emotion |-> "surprised", confidence |-> 7000]
      ELSE IF brow_up > 300 /\ eye_wide > 200
      THEN [emotion |-> "fearful", confidence |-> 6000]
      ELSE IF smile > 150
      THEN [emotion |-> "happy", confidence |-> 5000 + 5 * smile]
      ELSE IF frown > 150
      THEN [emotion |-> "sad", confidence |-> 5000]
      ELSE [emotion |-> "neutral", confidence |-> 5000]

\* The scores the blendshape lists are made of: 0.4 and 0.8.  One side at 0.4
\* gives a pair metric of 0.2, on the thresholds of eye_squint and eye_wide;
\* jawOpen at 0.4 is on the threshold of jaw_open.
ShapeScores == {400, 800}

\* Every list of at most MaxShapes blendshapes.
ShapeLists ==
  UNION {[1..n -> {Shape(name, score) : name \in BlendshapeNames, score \in ShapeScores}] :
           n \in 0..MaxShapes}

\* A full smile with squinting eyes, and a face with every category at 0.
SmilingFace ==
  << Shape("mouthSmileLeft", 500), Shape("mouthSmileRight", 500),
     Shape("eyeSquintLeft", 300), Shape("eyeSquintRight", 300) >>
BlankFace ==
  << Shape("mouthSmileLeft", 0), Shape("mouthSmileRight", 0),
     Shape("mouthFrownLeft", 0), Shape("mouthFrownRight", 0),
     Shape("browDownLeft", 0), Shape("browDownRight", 0),
     Shape("browInnerUp", 0), Shape("jawOpen", 0),
     Shape("eyeWideLeft", 0), Shape("eyeWideRight", 0),
     Shape("eyeSquintLeft", 0), Shape("eyeSquintRight", 0) >>

\* Faces with scores outside [0,1]: each pair metric at 2.0, the smile with and
\* without squinting eyes, a frown at 4.0 and a smile at -1.0.
OutOfRangeFaces ==
  { << Shape("mouthFrownLeft", 2000), Shape("mouthFrownRight", 2000) >>,
    << Shape("mouthFrownLeft", 4000), Shape("mouthFrownRight", 4000) >>,
    << Shape("browDownLeft", 2000), Shape("browDownRight", 2000) >>,
    << Shape("mouthSmileLeft", 2000), Shape("mouthSmileRight", 2000) >>,
    << Shape("mouthSmileLeft", 2000), Shape("mouthSmileRight", 2000),
       Shape("eyeSquintLeft", 2000), Shape("eyeSquintRight", 2000) >>,
    << Shape("mouthSmileLeft", -1000), Shape("mouthSmileRight", -1000) >>,
    << Shape("jawOpen", 2000), Shape("eyeWideLeft", 2000), Shape("eyeWideRight", 2000) >> }

\* Faces with a pair metric at 1.0, the largest score in range.
FullScoreFaces ==
  { << Shape("mouthFrownLeft", 1000), Shape("mouthFrownRight", 1000) >>,
    << Shape("browDownLeft", 1000), Shape("browDownRight", 1000) >>,
    << Shape("mouthSmileLeft", 1000), Shape("mouthSmileRight", 1000) >>,
    << Shape("mouthSmileLeft", 1000), Shape("mouthSmileRight", 1000),
       Shape("eyeSquintLeft", 1000), Shape("eyeSquintRight", 1000) >> }

\* The arguments of _blendshapes_to_emotion.
BlendshapeInputs ==
  ShapeLists \cup {SmilingFace, BlankFace} \cup FullScoreFaces \cup OutOfRangeFaces

\* --------------------------------- vision_service.py: detect_face_emotion
\* What the first-use creation of the face landmarker does: the mediapipe
\* import raises, _download_model returns None, create_from_options raises,
\* or the landmarker is created.
LandmarkerLoadOutcomes == {"absent", "no_model", "load_error", "ok"}

\* _get_face_landmarker as one uninterrupted call: the value returned and the
\* two module globals after it.
_get_face_landmarker(initialized, landmarker, load) ==
  IF initialized
  THEN [value |-> landmarker, initialized |-> initialized, landmarker |-> landmarker]
  ELSE IF load = "ok"
  THEN [value |-> "landmarker", initialized |-> TRUE, landmarker |-> "landmarker"]
  ELSE [value |-> "None", initialized |-> TRUE, landmarker |-> landmarker]

\* A base64_image argument is the sequence of its parts between commas: a
\* data URL header, the base64 text of a picture ("picture"), or text that is
\* no picture.
\* _decode_base64_image: with a comma in the string the part after the first
\* comma is decoded, else the whole string; every failure gives None.
_decode_base64_image(base64_string) ==
  LET payload == IF Len(base64_string) > 1 THEN base64_string[2] ELSE base64_string[1]
  IN  IF payload = "picture" THEN "mp_image" ELSE "None"

\* The arguments of detect_face_emotion: a bare picture, a data URL, the
\* empty string, text that is no picture, and a picture behind a wrong part.
FaceImages ==
  { <<"picture">>, <<"data:image/jpeg;base64", "picture">>, <<"">>, <<"garbage">>,
    <<"data:image/jpeg;base64", "garbage">>, <<"picture", "garbage">> }

\* What landmarker.detect(mp_image) does in one call on a picture that shows
\* the face `blendshapes`: it raises, it finds no face, or it returns the
\* blendshapes of the face.
Detections(blendshapes) ==
  { [kind |-> "raise"],
    [kind |-> "faces", face_blendshapes |-> <<>>],
    [kind |-> "faces", face_blendshapes |-> <<blendshapes>>] }

\* The faces on the pictures.
FaceSamples ==
  { SmilingFace, BlankFace,
    << Shape("mouthFrownLeft", 800), Shape("mouthFrownRight", 800) >>,
    << Shape("mouthSmileLeft", 400) >> }

\* Lines 206-212: the metrics of the result.  round(s.score, 3) leaves a whole
\* number of thousandths as it is.
FaceMetrics(blendshapes) ==
  [smile |-> (shapes_get(blendshapes, "mouthSmileLeft")
              + shapes_get(blendshapes, "mouthSmileRight")) \div 2,
   frown |-> (shapes_get(blendshapes, "mouthFrownLeft")
              + shapes_get(blendshapes, "mouthFrownRight")) \div 2,
   brow_down |-> (shapes_get(blendshapes, "browDownLeft")
                  + shapes_get(blendshapes, "browDownRight")) \div 2,
   jaw_open |-> shapes_get(blendshapes, "jawOpen")]

\* A faulty variant of face_emotion: an image without a face is answered as a
\* detected neutral face.
face_emotion_NoFaceIsNeutralFace(landmarker, base64_image, det) ==
  LET mp_image == _decode_base64_image(base64_image)
  IN  IF landmarker = "None"
      THEN [value |-> [emotion |-> "neutral", confidence |-> 0, face_detected |-> FALSE,
                       source |-> "error", error |-> "Face landmarker not available"],
            steps |-> <<>>]
      ELSE IF mp_image = "None"
      THEN [value |-> [emotion |-> "neutral", confidence |-> 0, face_detected |-> FALSE,
                       source |-> "decode_error"],
            steps |-> <<"decode">>]
      ELSE IF det.kind = "raise"
      THEN [value |-> [emotion |-> "neutral", confidence |-> 0, face_detected |-> FALSE,
                       error |-> "exception", source |-> "error"],
            steps |-> <<"decode", "detect">>]
      ELSE IF Len(det.face_blendshapes) = 0
      THEN [value |-> [emotion |-> "neutral", confidence |-> 5000, face_detected |-> TRUE,
                       source |-> "no_face"],
            steps |-> <<"decode", "detect">>]
      ELSE LET blendshapes == det.face_blendshapes[1]
               classified == _blendshapes_to_emotion(blendshapes)
           IN  [value |-> [emotion |-> classified.emotion,
                           confidence |-> classified.confidence,
                           face_detected |-> TRUE,
                           metrics |-> FaceMetrics(blendshapes),
                           source |-> "mediapipe"],
                steps |-> <<"decode", "detect", "classify">>]

\* A faulty variant of face_emotion: the image is decoded before the landmarker
\* is looked at.
face_emotion_DecodeFirst(landmarker, base64_image, det) ==
  LET mp_image == _decode_base64_image(base64_image)
  IN  IF mp_image = "None"
      THEN [value |-> [emotion |-> "neutral", confidence |-> 0, face_detected |-> FALSE,
                       source |-> "decode_error"],
            steps |-> <<"decode">>]
      ELSE IF landmarker = "None"
      THEN [value |-> [emotion |-> "neutral", confidence |-> 0, face_detected |-> FALSE,
                       source |-> "error", error |-> "Face landmarker not available"],
            steps |-> <<"decode">>]
      ELSE IF det.kind = "raise"
      THEN [value |-> [emotion |-> "neutral", confidence |-> 0, face_detected |-> FALSE,
                       error |-> "exception", source |-> "error"],
            steps |-> <<"decode", "detect">>]
      ELSE IF Len(det.face_blendshapes) = 0
      THEN [value |-> [emotion |-> "neutral", confidence |-> 0, face_detected |-> FALSE,
                       source |-> "no_face"],
            steps |-> <<"decode", "detect">>]
      ELSE LET blendshapes == det.face_blendshapes[1]
               classified == _blendshapes_to_emotion(blendshapes)
           IN  [value |-> [emotion |-> classified.emotion,
                           confidence |-> classified.confidence,
                           face_detected |-> TRUE,
                           metrics |-> FaceMetrics(blendshapes),
                           source |-> "mediapipe"],
                steps |-> <<"decode", "detect", "classify">>]

\* Lines 169-230 of detect_face_emotion, after `landmarker` was obtained: the
\* dictionary returned and the sub-steps that ran.
face_emotion(landmarker, base64_image, det) ==
  LET mp_image == _decode_base64_image(base64_image)
  IN  IF landmarker = "None"
      THEN [value |-> [emotion |-> "neutral", confidence |-> 0, face_detected |-> FALSE,
                       source |-> "error", error |-> "Face landmarker not available"],
            steps |-> <<>>]
      ELSE IF mp_image = "None"
      THEN [value |-> [emotion |-> "neutral", confidence |-> 0, face_detected |-> FALSE,
                       source |-> "decode_error"],
            steps |-> <<"decode">>]
      ELSE IF det.kind = "raise"
      THEN [value |-> [emotion |-> "neutral", confidence |-> 0, face_detected |-> FALSE,
                       error |-> "exception", source |-> "error"],
            steps |-> <<"decode", "detect">>]
      ELSE IF Len(det.face_blendshapes) = 0
      THEN [value |-> [emotion |-> "neutral", confidence |-> 0, face_detected |-> FALSE,
                       source |-> "no_face"],
            steps |-> <<"decode", "detect">>]
      ELSE LET blendshapes == det.face_blendshapes[1]
               classified == _blendshapes_to_emotion(blendshapes)
           IN  [value |-> [emotion |-> classified.emotion,
                           confidence |-> classified.confidence,
                           face_detected |-> TRUE,
                           metrics |-> FaceMetrics(blendshapes),
                           source |-> "mediapipe"],
                steps |-> <<"decode", "detect", "classify">>]

\* detect_face_emotion(base64_image) as one uninterrupted call: the result, the
\* two module globals after the call and the landmarker the call obtained.
detect_face_emotion(base64_image, initialized, landmarker, load, det) ==
  LET got == _get_face_landmarker(initialized, landmarker, load)
      r == face_emotion(got.value, base64_image, det)
  IN  [value |-> r.value, steps |-> r.steps, obtained |-> got.value,
       initialized |-> got.initialized, landmarker |-> got.landmarker]

\* ======================================== services/gemini_service.py
\* What the first-use initialisation of the Gemini client does: the import or
\* genai.configure raises, no API key is in the environment, or the client is
\* configured.
GenaiInitOutcomes == {"raise", "no_key", "ok"}

\* _get_genai(): the client returned (None for "failed" and "no_key") and the
\* global after the call.
_get_genai(genai, init) ==
  LET after == IF genai = "None"
               THEN (IF init = "ok" THEN "genai"
                     ELSE IF init = "no_key" THEN "no_key" ELSE "failed")
               ELSE genai
  IN  [value |-> IF after \in {"failed", "no_key"} THEN "None" ELSE after,
       genai |-> after]

\* _get_or_create_chat(): the session returned and the two globals after the
\* call; `create` tells whether GenerativeModel(...).start_chat raises.
_get_or_create_chat(genai, chat_session, init, create) ==
  LET got == _get_genai(genai, init)
  IN  IF got.value = "None"
      THEN [value |-> "None", genai |-> got.genai, chat_session |-> chat_session]
      ELSE IF chat_session = "None"
      THEN (IF create = "ok"
            THEN [value |-> "chat", genai |-> got.genai, chat_session |-> "chat"]
            ELSE [value |-> "None", genai |-> got.genai, chat_session |-> "None"])
      ELSE [value |-> chat_session, genai |-> got.genai, chat_session |-> chat_session]

\* Lines 104-108: the fixed response of the crisis protocol.
CRISIS_RESPONSE ==
  "I hear you, and I'm really glad you reached out. What you're feeling matters, and you don't have to face this alone. If you're in immediate danger, please contact a crisis helpline or emergency services. I'm here to listen and support you."

\* Lines 139-213: the rule-based responses per emotion (the smiley of the first
\* 'happy' option is left out).
fallback_responses ==
  << [emotion |-> <<"h", "a", "p", "p", "y">>,
      options |-> << "That's wonderful to hear! What's bringing you joy today?",
                     "I love hearing that! What made today special for you?",
                     "That positivity is contagious! Want to share what's going well?",
                     "Happiness looks good on you! Tell me more about it.",
                     "That's great! Celebrating the good moments is so important. What happened?" >>],
     [emotion |-> <<"j", "o", "y">>,
      options |-> << "Such joyful energy! What's making you feel this way?",
                     "That's beautiful! I'd love to hear more about what's bringing you joy.",
                     "Wonderful! Let's savor this good feeling together. What's the story?" >>],
     [emotion |-> <<"s", "a", "d">>,
      options |-> << "I hear you. It's okay to feel this way. Would you like to talk about what's on your mind?",
                     "That sounds really hard. I'm here to listen whenever you're ready to share.",
                     "It takes courage to acknowledge when we're feeling down. What's weighing on your heart?",
                     "I'm sorry you're going through this. Sometimes just talking helps - what's happening?",
                     "Feeling sad is part of being human. You don't have to carry this alone. What's going on?" >>],
     [emotion |-> <<"s", "a", "d", "n", "e", "s", "s">>,
      options |-> << "I can sense you're going through something difficult. Want to talk about it?",
                     "It's okay to not be okay. I'm here for you - what's troubling you?",
                     "Sometimes life gets heavy. I'm listening. What would help to get off your chest?" >>],
     [emotion |-> <<"a", "n", "g", "r", "y">>,
      options |-> << "It sounds like something is frustrating you. Take a deep breath - I'm here to listen.",
                     "I can hear the frustration. What's going on that's making you feel this way?",
                     "Anger is a signal that something matters to you. What happened?",
                     "It's okay to feel angry. Let it out - what's bothering you?",
                     "That sounds really frustrating. Tell me what's going on." >>],
     [emotion |-> <<"a", "n", "g", "e", "r">>,
      options |-> << "Those feelings are valid. What triggered this frustration?",
                     "I hear you. Sometimes we need to vent. What's on your mind?",
                     "Anger can be overwhelming. Let's talk through it - what happened?" >>],
     [emotion |-> <<"f", "e", "a", "r", "f", "u", "l">>,
      options |-> << "I understand that can feel scary. You're safe here. What's worrying you?",
                     "Fear is a tough emotion. You're not alone in this. What's on your mind?",
                     "It's brave to acknowledge when we're scared. What's making you feel this way?",
                     "I'm here with you. Let's work through those worries together." >>],
     [emotion |-> <<"f", "e", "a", "r">>,
      options |-> << "That sounds unsettling. What specifically is making you feel afraid?",
                     "Fear can be overwhelming, but you don't have to face it alone. Tell me more." >>],
     [emotion |-> <<"a", "n", "x", "i", "o", "u", "s">>,
      options |-> << "It's natural to feel anxious sometimes. Let's take this one step at a time.",
                     "Anxiety can be overwhelming. Take a breath - I'm here with you.",
                     "I understand that feeling. What's making you anxious right now?",
                     "Let's slow down together. What's weighing on your mind?",
                     "Anxiety is tough. Sometimes talking through it helps. What's going on?" >>],
     [emotion |-> <<"s", "u", "r", "p", "r", "i", "s", "e", "d">>,
      options |-> << "Oh! That sounds unexpected. Tell me more about what happened.",
                     "Wow, that sounds like quite a surprise! What's the story?",
                     "Life can throw curveballs! How are you processing this surprise?" >>],
     [emotion |-> <<"s", "u", "r", "p", "r", "i", "s", "e">>,
      options |-> << "That caught you off guard! How do you feel about it?",
                     "Unexpected moments can be a lot to handle. Tell me more." >>],
     [emotion |-> <<"n", "e", "u", "t", "r", "a", "l">>,
      options |-> << "I'm here for you. What would you like to talk about?",
                     "How can I support you today?",
                     "I'm listening. What's on your mind?",
                     "Tell me what's going on with you today.",
                     "I'm here whenever you're ready to share." >>],
     [emotion |-> <<"d", "i", "s", "g", "u", "s", "t">>,
      options |-> << "That sounds really unpleasant. What happened?",
                     "I can hear that was disturbing. Want to talk about it?" >>] >>

\* The messages of the chat requests.
m_hello == <<"h", "e", "l", "l", "o">>
m_die == <<"I", " ", "w", "a", "n", "t", " ", "t", "o", " ", "d", "i", "e">>
ChatMessages == {m_hello, m_die}

\* The emotion_context arguments: None, a key of the table in another letter
\* case, and a word that is no key.
c_Sad == <<"S", "a", "d">>
c_bored == <<"b", "o", "r", "e", "d">>
EmotionContexts == {PyNone, c_Sad, c_bored}

\* int(hashlib.md5(message.encode()).hexdigest(), 16) modulo 60; every list of
\* the table has 2, 3, 4 or 5 options, and these divide 60.
Md5Mod60(message) == IF message = m_hello THEN 34 ELSE 30

s_feeling ==
  <<"[", "U", "s", "e", "r", " ", "s", "e", "e", "m", "s", " ", "t", "o", " ", "b", "e", " ",
    "f", "e", "e", "l", "i", "n", "g", " ">>

\* Lines 117-121: the message handed to the chat session.
FullMessage(message, emotion_context) ==
  IF emotion_context \notin {PyNone, <<>>}
  THEN s_feeling \o emotion_context \o <<"]", " ">> \o message
  ELSE message

\* Lines 216-229: the rule-based response.
FallbackResponse(message, emotion_context) ==
  LET emotion_key == Lower(IF emotion_context \in {PyNone, <<>>} THEN s_neutral
                           ELSE emotion_context)
      known == {i \in 1..Len(fallback_responses) :
                  fallback_responses[i].emotion = emotion_key}
      neutral == CHOOSE i \in 1..Len(fallback_responses) :
                   fallback_responses[i].emotion = s_neutral
      response_options == fallback_responses[IF known = {} THEN neutral
                                             ELSE CHOOSE i \in known : TRUE].options
      response_index == Md5Mod60(message) % Len(response_options)
  IN  [response |-> response_options[response_index + 1],
       source |-> "fallback",
       error |-> "Gemini unavailable, using rule-based response"]

\* What chat.send_message(full_message) does.
SendOutcomes == { [kind |-> "raise"], [kind |-> "ok", text |-> "reply"] }

\* A faulty variant of generate_chat_response: the chat session is obtained before the
\* crisis override is tested.
generate_chat_response_ChatFirst(message, emotion_context, is_crisis, genai, chat_session, init, create, send) ==
  LET got == _get_or_create_chat(genai, chat_session, init, create)
      full_message == FullMessage(message, emotion_context)
  IN  IF is_crisis
      THEN [value |-> [response |-> CRISIS_RESPONSE, source |-> "crisis_protocol"],
            genai |-> got.genai, chat_session |-> got.chat_session, sent |-> <<>>]
      ELSE IF got.value # "None" /\ send.kind = "ok"
      THEN [value |-> [response |-> send.text, source |-> "gemini"],
            genai |-> got.genai, chat_session |-> got.chat_session,
            sent |-> <<full_message>>]
      ELSE [value |-> FallbackResponse(message, emotion_context),
            genai |-> got.genai, chat_session |-> got.chat_session,
            sent |-> IF got.value # "None" THEN <<full_message>> ELSE <<>>]

\* generate_chat_response(message, emotion_context, is_crisis): the result, the
\* two globals after the call and the messages handed to send_message (`sent`).
generate_chat_response(message, emotion_context, is_crisis, genai, chat_session, init, create, send) ==
  IF is_crisis
  THEN [value |-> [response |-> CRISIS_RESPONSE, source |-> "crisis_protocol"],
        genai |-> genai, chat_session |-> chat_session, sent |-> <<>>]
  ELSE LET got == _get_or_create_chat(genai, chat_session, init, create)
           full_message == FullMessage(message, emotion_context)
       IN  IF got.value # "None" /\ send.kind = "ok"
           THEN [value |-> [response |-> send.text, source |-> "gemini"],
                 genai |-> got.genai, chat_session |-> got.chat_session,
                 sent |-> <<full_message>>]
           ELSE [value |-> FallbackResponse(message, emotion_context),
                 genai |-> got.genai, chat_session |-> got.chat_session,
                 sent |-> IF got.value # "None" THEN <<full_message>> ELSE <<>>]

\* ================================================================ state
VARIABLES
  text,                \* the text under analysis
  transformers,        \* whether `from transformers import pipeline` succeeds
  sentiment_pipeline,  \* text_analysis_service._sentiment_pipeline
  emotion_pipeline,    \* text_analysis_service._emotion_pipeline
  sentiment_model,     \* ai_engine.sentiment_model
  emotion_model,       \* ai_engine.emotion_model
  crisis_model,        \* ai_engine.crisis_model
  mediapipe,           \* whether `import mediapipe` succeeds
  face_landmarker,     \* vision_service._face_landmarker
  landmarker_initialized,  \* vision_service._landmarker_initialized
  image,               \* the base64 image under analysis
  blendshapes,         \* the blendshapes of the face on the image
  calls,               \* per thread, the call it is in and where
  loads,               \* per handle, how many times its model was loaded
  _genai,              \* gemini_service._genai
  _chat_session,       \* gemini_service._chat_session
  chat_history,        \* the messages handed to the chat session's send_message
  ret,                 \* the call that has returned and is not yet answered
  prev                 \* the last answered call that took a fallback path

vars == <<text, transformers, sentiment_pipeline, emotion_pipeline, sentiment_model, emotion_model,
          crisis_model, mediapipe, face_landmarker, landmarker_initialized, image,
          blendshapes, calls, loads, _genai, _chat_session, chat_history, ret, prev>>

pipelines == <<sentiment_pipeline, emotion_pipeline>>
engine == <<sentiment_model, emotion_model, crisis_model>>
vision == <<mediapipe, face_landmarker, landmarker_initialized, image, blendshapes>>
threads == <<calls, loads>>
gemini == <<_genai, _chat_session, chat_history>>

Idle == [fn |-> "idle"]

\* The face service is not in use, and no thread is inside a call.
VisionUnused ==
  /\ mediapipe = "absent"
  /\ face_landmarker = "None"
  /\ landmarker_initialized = FALSE
  /\ image = <<"">>
  /\ blendshapes = <<>>
\* The Gemini client is not initialised and there is no chat session.
GeminiUnused ==
  /\ _genai = "None"
  /\ _chat_session = "None"
  /\ chat_history = <<>>
NoThreads ==
  /\ calls = <<>>
  /\ loads = [sentiment |-> 0, emotion |-> 0, landmarker |-> 0]

\* The emotion_result arguments of a direct detect_crisis call.
EmotionResults ==
  {NoEmotionResult} \cup
  { [emotion |-> l, confidence |-> c, all_emotions |-> <<>>, source |-> "huggingface"] :
      l \in {s_sadness, s_Fear, s_joy, PyNone}, c \in {EmotionThreshold, EmotionThreshold + 1} }

\* A load is attempted only on the first use of a handle, and a predictor is
\* called only through a loaded handle: the other cases have nothing to choose.
Loads(handle) ==
  IF handle = "None" /\ ~IsBlank(text)
  THEN (IF transformers = "installed" THEN LoadOutcomes \ {"absent"} ELSE {"absent"})
  ELSE {"no_load"}
Outs(pipeline, outcomes) ==
  IF pipeline = "pipe" /\ ~IsBlank(text) THEN outcomes ELSE {NotCalled}

\* ------------------------------------------------- the text service
\* Module import: both handles are None; the transformers package is installed
\* or not.
ServiceInit ==
  /\ VisionUnused /\ NoThreads
  /\ text \in ServiceTexts
  /\ transformers \in {"installed", "absent"}
  /\ sentiment_pipeline = "None"
  /\ emotion_pipeline = "None"
  /\ sentiment_model = "None"
  /\ emotion_model = "None"
  /\ crisis_model = "None"
  /\ ret = Idle
  /\ prev = Idle
  /\ GeminiUnused

\* A direct call detect_crisis(text, emotion_result).
DetectCrisisCall ==
  /\ ret = Idle
  /\ \E emotion_result \in EmotionResults :
       ret' = [fn |-> "detect_crisis", emotion_result |-> emotion_result,
               out |-> detect_crisis(text, emotion_result)]
  /\ UNCHANGED <<text, transformers, pipelines, engine, prev, vision, threads, gemini>>

\* A call analyze_text_complete(text).
AnalyzeTextComplete ==
  /\ ret = Idle
  /\ \E sload \in Loads(sentiment_pipeline), eload \in Loads(emotion_pipeline) :
       \E sout \in Outs(_get_sentiment_pipeline(sentiment_pipeline, sload), SentimentOutcomes),
          eout \in Outs(_get_emotion_pipeline(emotion_pipeline, eload), EmotionOutcomes) :
         LET r == analyze_text_complete(text, sentiment_pipeline, emotion_pipeline,
                                        sload, eload, sout, eout)
         IN  /\ ret' = [fn |-> "analyze_text_complete", sout |-> sout, eout |-> eout,
                        out |-> r]
             /\ sentiment_pipeline' = r.sentiment_handle
             /\ emotion_pipeline' = r.emotion_handle
  /\ UNCHANGED <<text, transformers, engine, prev, vision, threads, gemini>>

\* A call analyze_sentiment(text).
AnalyzeSentimentCall ==
  /\ ret = Idle
  /\ \E load \in Loads(sentiment_pipeline) :
       \E out \in Outs(_get_sentiment_pipeline(sentiment_pipeline, load), SentimentOutcomes) :
         LET r == analyze_sentiment(text, sentiment_pipeline, load, out)
         IN  /\ ret' = [fn |-> "analyze_sentiment", out |-> r]
             /\ sentiment_pipeline' = r.handle
  /\ UNCHANGED <<text, transformers, emotion_pipeline, engine, prev, vision, threads, gemini>>

\* A call analyze_emotion(text).
AnalyzeEmotionCall ==
  /\ ret = Idle
  /\ \E load \in Loads(emotion_pipeline) :
       \E out \in Outs(_get_emotion_pipeline(emotion_pipeline, load), EmotionOutcomes) :
         LET r == analyze_emotion(text, emotion_pipeline, load, out)
         IN  /\ ret' = [fn |-> "analyze_emotion", eout |-> out, out |-> r]
             /\ emotion_pipeline' = r.handle
  /\ UNCHANGED <<text, transformers, sentiment_pipeline, engine, prev, vision, threads, gemini>>

\* The causes that send analyze_sentiment and analyze_emotion to the fallback.
FallbackCauses == {"absent", "load_error", "unavailable", "raised"}

TookFallback(r) ==
  r.fn \in {"analyze_sentiment", "analyze_emotion"} /\ r.out.cause \in FallbackCauses

\* The caller takes the result.
Respond ==
  /\ ret # Idle
  /\ ret' = Idle
  /\ prev' = IF TookFallback(ret)
             THEN [fn |-> ret.fn, cause |-> ret.out.cause, value |-> ret.out.value]
             ELSE prev
  /\ UNCHANGED <<text, transformers, pipelines, engine, vision, threads, gemini>>

\* The process is started again, with the package installed or not: the
\* handles are None again.
Restart ==
  /\ ret = Idle
  /\ pipelines # <<"None", "None">>
  /\ transformers' \in {"installed", "absent"}
  /\ sentiment_pipeline' = "None"
  /\ emotion_pipeline' = "None"
  /\ UNCHANGED <<text, engine, ret, prev, vision, threads, gemini>>

Next == DetectCrisisCall \/ AnalyzeTextComplete \/ Respond

Spec == ServiceInit /\ [][Next]_vars

\* The sentiment and the emotion endpoint, over process restarts.
FallbackInit ==
  /\ VisionUnused /\ NoThreads
  /\ text \in FallbackTexts
  /\ transformers \in {"installed", "absent"}
  /\ sentiment_pipeline = "None"
  /\ emotion_pipeline = "None"
  /\ sentiment_model = "None"
  /\ emotion_model = "None"
  /\ crisis_model = "None"
  /\ ret = Idle
  /\ prev = Idle
  /\ GeminiUnused

NextFallback == AnalyzeSentimentCall \/ AnalyzeEmotionCall \/ Respond \/ Restart

SpecFallback == FallbackInit /\ [][NextFallback]_vars

\* ---------------------------------------------------- the AI engine
\* AIEngine.__init__: each model file is loaded, or its attribute is None.
EngineInit ==
  /\ VisionUnused /\ NoThreads
  /\ text \in EngineTexts
  /\ transformers = "installed"
  /\ sentiment_pipeline = "None"
  /\ emotion_pipeline = "None"
  /\ sentiment_model \in {"None", "model"}
  /\ emotion_model \in {"None", "model"}
  /\ crisis_model \in {"None", "model"}
  /\ ret = Idle
  /\ prev = Idle
  /\ GeminiUnused

ModelOuts(model, outcomes) ==
  IF model = "model" /\ text # <<>> THEN outcomes ELSE {NotCalled}

\* POST /api/analyze: ai_engine.analyze_text(request.text).
EngineAnalyzeText ==
  /\ ret = Idle
  /\ \E sout \in ModelOuts(sentiment_model, LabelModelOutcomes),
        eout \in ModelOuts(emotion_model, LabelModelOutcomes),
        cout \in ModelOuts(crisis_model, CrisisModelOutcomes) :
       ret' = [fn |-> "AIEngine.analyze_text", cout |-> cout,
               out |-> AIEngine_analyze_text(text, sentiment_model, emotion_model,
                                             crisis_model, sout, eout, cout)]
  /\ UNCHANGED <<text, transformers, pipelines, engine, prev, vision, threads, gemini>>

NextEngine == EngineAnalyzeText \/ Respond

SpecEngine == EngineInit /\ [][NextEngine]_vars

\* ------------------------------------------------ the face classifier
\* The text service is not in use.
TextUnused ==
  /\ text = <<>>
  /\ transformers = "absent"
  /\ sentiment_pipeline = "None"
  /\ emotion_pipeline = "None"
  /\ sentiment_model = "None"
  /\ emotion_model = "None"
  /\ crisis_model = "None"
  /\ prev = Idle

BlendInit ==
  /\ TextUnused /\ NoThreads
  /\ mediapipe = "absent"
  /\ face_landmarker = "None"
  /\ landmarker_initialized = FALSE
  /\ image = <<"">>
  /\ blendshapes \in BlendshapeInputs
  /\ ret = Idle
  /\ GeminiUnused

\* A call _blendshapes_to_emotion(blendshapes).
BlendshapesToEmotionCall ==
  /\ ret = Idle
  /\ ret' = [fn |-> "_blendshapes_to_emotion", out |-> _blendshapes_to_emotion(blendshapes)]
  /\ UNCHANGED <<text, transformers, pipelines, engine, prev, vision, threads, gemini>>

NextBlend == BlendshapesToEmotionCall \/ Respond

SpecBlend == BlendInit /\ [][NextBlend]_vars

\* ---------------------------------------------------- the face service
\* Module import: the landmarker is None and not initialised; the mediapipe
\* package is installed or not; the image shows the face `blendshapes`.
FaceInit ==
  /\ TextUnused /\ NoThreads
  /\ mediapipe \in {"installed", "absent"}
  /\ face_landmarker = "None"
  /\ landmarker_initialized = FALSE
  /\ image \in FaceImages
  /\ blendshapes \in FaceSamples
  /\ ret = Idle
  /\ GeminiUnused

\* The creation of the landmarker is attempted only while the module is not
\* initialised, and detect runs only on a decoded image with a landmarker.
LandmarkerLoads(initialized) ==
  IF initialized THEN {"no_load"}
  ELSE IF mediapipe = "installed" THEN LandmarkerLoadOutcomes \ {"absent"}
  ELSE {"absent"}
DetectOuts(landmarker, base64_image) ==
  IF landmarker # "None" /\ _decode_base64_image(base64_image) # "None"
  THEN Detections(blendshapes) ELSE {NotCalled}

\* A call detect_face_emotion(image).
DetectFaceEmotionCall ==
  /\ ret = Idle
  /\ \E load \in LandmarkerLoads(landmarker_initialized) :
       \E det \in DetectOuts(_get_face_landmarker(landmarker_initialized,
                                                  face_landmarker, load).value, image) :
         LET r == detect_face_emotion(image, landmarker_initialized, face_landmarker,
                                      load, det)
         IN  /\ ret' = [fn |-> "detect_face_emotion", load |-> load, det |-> det,
                        before |-> <<landmarker_initialized, face_landmarker>>,
                        out |-> r]
             /\ landmarker_initialized' = r.initialized
             /\ face_landmarker' = r.landmarker
  /\ UNCHANGED <<text, transformers, pipelines, engine, prev, mediapipe, image,
                 blendshapes, threads, gemini>>

NextFace == DetectFaceEmotionCall \/ Respond

SpecFace == FaceInit /\ [][NextFace]_vars

\* ------------------------------- first use of a predictor from threads
\* The callers: each runs one call at a time, statement by statement.
Threads == 1..MaxThreads

Modalities == {"sentiment", "emotion"}

\* The handle of a modality.
Handle(which) == IF which = "sentiment" THEN sentiment_pipeline ELSE emotion_pipeline

PipelineRaceInit ==
  /\ text = w_hello
  /\ transformers \in {"installed", "absent"}
  /\ sentiment_pipeline = "None"
  /\ emotion_pipeline = "None"
  /\ sentiment_model = "None"
  /\ emotion_model = "None"
  /\ crisis_model = "None"
  /\ ret = Idle
  /\ prev = Idle
  /\ VisionUnused
  /\ calls = [t \in Threads |-> [pc |-> "idle"]]
  /\ loads = [sentiment |-> 0, emotion |-> 0, landmarker |-> 0]
  /\ GeminiUnused

\* A thread enters _get_sentiment_pipeline or _get_emotion_pipeline.
GetPipelineBegin(t) ==
  /\ calls[t].pc \in {"idle", "returned"}
  /\ \E which \in Modalities :
       calls' = [calls EXCEPT ![t] = [pc |-> "test", which |-> which]]
  /\ UNCHANGED <<text, transformers, pipelines, engine, ret, prev, vision, loads, gemini>>

\* Lines 20 and 39: if _sentiment_pipeline is None.
GetPipelineTest(t) ==
  /\ calls[t].pc = "test"
  /\ calls' = [calls EXCEPT ![t].pc =
                 IF Handle(calls[t].which) = "None" THEN "load" ELSE "return"]
  /\ UNCHANGED <<text, transformers, pipelines, engine, ret, prev, vision, loads, gemini>>

\* Lines 22-28 and 41-48: the import and pipeline(...), which loads the model
\* or raises; the result is not yet stored.
GetPipelineLoad(t) ==
  /\ calls[t].pc = "load"
  /\ \E load \in IF transformers = "installed" THEN LoadOutcomes \ {"absent"}
                 ELSE {"absent"} :
       /\ calls' = [calls EXCEPT ![t] =
                      [pc |-> "store", which |-> calls[t].which,
                       loaded |-> IF load = "ok" THEN "pipe" ELSE "failed"]]
       /\ loads' = IF load = "ok"
                   THEN [loads EXCEPT ![calls[t].which] = @ + 1]
                   ELSE loads
  /\ UNCHANGED <<text, transformers, pipelines, engine, ret, prev, vision, gemini>>

\* Lines 24 and 32, 43 and 52: the assignment to the global.
GetPipelineStore(t) ==
  /\ calls[t].pc = "store"
  /\ IF calls[t].which = "sentiment"
     THEN sentiment_pipeline' = calls[t].loaded /\ UNCHANGED emotion_pipeline
     ELSE emotion_pipeline' = calls[t].loaded /\ UNCHANGED sentiment_pipeline
  /\ calls' = [calls EXCEPT ![t] = [pc |-> "return", which |-> calls[t].which]]
  /\ UNCHANGED <<text, transformers, engine, ret, prev, vision, loads, gemini>>

\* Lines 33 and 53: return the handle, None for "failed".
GetPipelineReturn(t) ==
  /\ calls[t].pc = "return"
  /\ calls' = [calls EXCEPT ![t] =
                 [pc |-> "returned", which |-> calls[t].which,
                  value |-> IF Handle(calls[t].which) = "failed" THEN "None"
                            ELSE Handle(calls[t].which)]]
  /\ UNCHANGED <<text, transformers, pipelines, engine, ret, prev, vision, loads, gemini>>

NextPipelineRace ==
  \E t \in Threads :
    \/ GetPipelineBegin(t)
    \/ GetPipelineTest(t)
    \/ GetPipelineLoad(t)
    \/ GetPipelineStore(t)
    \/ GetPipelineReturn(t)

SpecPipelineRace == PipelineRaceInit /\ [][NextPipelineRace]_vars

\* ---------------------------- first use of the landmarker from threads
LandmarkerRaceInit ==
  /\ TextUnused
  /\ mediapipe \in {"installed", "absent"}
  /\ face_landmarker = "None"
  /\ landmarker_initialized = FALSE
  /\ image = <<"picture">>
  /\ blendshapes = SmilingFace
  /\ ret = Idle
  /\ calls = [t \in Threads |-> [pc |-> "idle"]]
  /\ loads = [sentiment |-> 0, emotion |-> 0, landmarker |-> 0]
  /\ GeminiUnused

\* A thread enters detect_face_emotion and, at line 167, _get_face_landmarker;
\* `raced` tells that the module was marked initialised by then.
GetLandmarkerBegin(t) ==
  /\ calls[t].pc \in {"idle", "answered"}
  /\ calls' = [calls EXCEPT ![t] = [pc |-> "test", raced |-> landmarker_initialized]]
  /\ UNCHANGED <<text, transformers, pipelines, engine, ret, prev, vision, loads, gemini>>

\* Line 42: if _landmarker_initialized.
GetLandmarkerTest(t) ==
  /\ calls[t].pc = "test"
  /\ calls' = [calls EXCEPT ![t].pc =
                 IF landmarker_initialized THEN "cached" ELSE "mark"]
  /\ UNCHANGED <<text, transformers, pipelines, engine, ret, prev, vision, loads, gemini>>

\* Line 43: return _face_landmarker.
GetLandmarkerCached(t) ==
  /\ calls[t].pc = "cached"
  /\ calls' = [calls EXCEPT ![t] =
                 [pc |-> "returned", raced |-> calls[t].raced, value |-> face_landmarker]]
  /\ UNCHANGED <<text, transformers, pipelines, engine, ret, prev, vision, loads, gemini>>

\* Line 45: _landmarker_initialized = True, before the landmarker exists.
GetLandmarkerMark(t) ==
  /\ calls[t].pc = "mark"
  /\ landmarker_initialized' = TRUE
  /\ calls' = [calls EXCEPT ![t].pc = "load"]
  /\ UNCHANGED <<text, transformers, pipelines, engine, ret, prev, mediapipe,
                 face_landmarker, image, blendshapes, loads, gemini>>

\* Lines 47-72: the imports, the model file and create_from_options; a
\* failure returns None, a success goes on to the assignment.
GetLandmarkerLoad(t) ==
  /\ calls[t].pc = "load"
  /\ \E load \in IF mediapipe = "installed" THEN LandmarkerLoadOutcomes \ {"absent"}
                 ELSE {"absent"} :
       IF load = "ok"
       THEN /\ calls' = [calls EXCEPT ![t].pc = "store"]
            /\ loads' = [loads EXCEPT !.landmarker = @ + 1]
       ELSE /\ calls' = [calls EXCEPT ![t] =
                           [pc |-> "returned", raced |-> calls[t].raced,
                            value |-> "None"]]
            /\ UNCHANGED loads
  /\ UNCHANGED <<text, transformers, pipelines, engine, ret, prev, vision, gemini>>

\* Lines 66-68: _face_landmarker = ...; return _face_landmarker.
GetLandmarkerStore(t) ==
  /\ calls[t].pc = "store"
  /\ face_landmarker' = "landmarker"
  /\ calls' = [calls EXCEPT ![t] =
                 [pc |-> "returned", raced |-> calls[t].raced, value |-> "landmarker"]]
  /\ UNCHANGED <<text, transformers, pipelines, engine, ret, prev, mediapipe,
                 landmarker_initialized, image, blendshapes, loads, gemini>>

\* Lines 169-230: the rest of detect_face_emotion, which reads no global.
DetectFaceEmotionAnswer(t) ==
  /\ calls[t].pc = "returned"
  /\ \E det \in DetectOuts(calls[t].value, image) :
       calls' = [calls EXCEPT ![t] =
                   [pc |-> "answered", raced |-> calls[t].raced,
                    value |-> calls[t].value,
                    out |-> face_emotion(calls[t].value, image, det).value]]
  /\ UNCHANGED <<text, transformers, pipelines, engine, ret, prev, vision, loads, gemini>>

NextLandmarkerRace ==
  \E t \in Threads :
    \/ GetLandmarkerBegin(t)
    \/ GetLandmarkerTest(t)
    \/ GetLandmarkerCached(t)
    \/ GetLandmarkerMark(t)
    \/ GetLandmarkerLoad(t)
    \/ GetLandmarkerStore(t)
    \/ DetectFaceEmotionAnswer(t)

SpecLandmarkerRace == LandmarkerRaceInit /\ [][NextLandmarkerRace]_vars

\* ------------------------------- a series of calls in one process
\* Whether a call that found the handle `handle` tried to load the model:
\* lines 20 and 39, `if _sentiment_pipeline is None`; a blank text returns
\* before the handle is asked for.
LoadAttempts(handle, cause) ==
  IF cause # "empty" /\ handle = "None" THEN 1 ELSE 0

\* The requests of a series.
SeriesTexts == {<<>>, w_space, w_sad, w_hello, w_Suicide}
SeriesImages == {<<"picture">>, <<"garbage">>}

\* Module import of both services; in this specification `loads` counts the
\* load attempts per handle.
SeriesInit ==
  /\ text \in SeriesTexts
  /\ image \in SeriesImages
  /\ blendshapes = SmilingFace
  /\ transformers \in {"installed", "absent"}
  /\ mediapipe \in {"installed", "absent"}
  /\ sentiment_pipeline = "None"
  /\ emotion_pipeline = "None"
  /\ face_landmarker = "None"
  /\ landmarker_initialized = FALSE
  /\ sentiment_model = "None"
  /\ emotion_model = "None"
  /\ crisis_model = "None"
  /\ NoThreads
  /\ ret = Idle
  /\ prev = Idle
  /\ GeminiUnused

\* The next request arrives.
NewRequest ==
  /\ ret = Idle
  /\ text' \in SeriesTexts
  /\ image' \in SeriesImages
  /\ UNCHANGED <<transformers, pipelines, engine, mediapipe, face_landmarker,
                 landmarker_initialized, blendshapes, threads, ret, prev, gemini>>

\* A call analyze_sentiment(text) of the series.
SeriesSentiment ==
  /\ ret = Idle
  /\ \E load \in Loads(sentiment_pipeline) :
       \E out \in Outs(_get_sentiment_pipeline(sentiment_pipeline, load), SentimentOutcomes) :
         LET r == analyze_sentiment(text, sentiment_pipeline, load, out)
         IN  /\ ret' = [fn |-> "analyze_sentiment", before |-> sentiment_pipeline,
                        out |-> r]
             /\ sentiment_pipeline' = r.handle
             /\ loads' = [loads EXCEPT !.sentiment =
                            @ + LoadAttempts(sentiment_pipeline, r.cause)]
  /\ UNCHANGED <<text, transformers, emotion_pipeline, engine, prev, vision, calls, gemini>>

\* A call analyze_emotion(text) of the series.
SeriesEmotion ==
  /\ ret = Idle
  /\ \E load \in Loads(emotion_pipeline) :
       \E out \in Outs(_get_emotion_pipeline(emotion_pipeline, load), EmotionOutcomes) :
         LET r == analyze_emotion(text, emotion_pipeline, load, out)
         IN  /\ ret' = [fn |-> "analyze_emotion", before |-> emotion_pipeline,
                        out |-> r]
             /\ emotion_pipeline' = r.handle
             /\ loads' = [loads EXCEPT !.emotion =
                            @ + LoadAttempts(emotion_pipeline, r.cause)]
  /\ UNCHANGED <<text, transformers, sentiment_pipeline, engine, prev, vision, calls, gemini>>

\* A call detect_face_emotion(image) of the series: the landmarker is created
\* when the module is not yet initialised (line 42).
SeriesFace ==
  /\ ret = Idle
  /\ \E load \in LandmarkerLoads(landmarker_initialized) :
       \E det \in DetectOuts(_get_face_landmarker(landmarker_initialized,
                                                  face_landmarker, load).value, image) :
         LET r == detect_face_emotion(image, landmarker_initialized, face_landmarker,
                                      load, det)
         IN  /\ ret' = [fn |-> "detect_face_emotion", load |-> load, det |-> det,
                        before |-> <<landmarker_initialized, face_landmarker>>,
                        out |-> r]
             /\ landmarker_initialized' = r.initialized
             /\ face_landmarker' = r.landmarker
             /\ loads' = [loads EXCEPT !.landmarker =
                            @ + (IF landmarker_initialized THEN 0 ELSE 1)]
  /\ UNCHANGED <<text, transformers, pipelines, engine, prev, mediapipe, image,
                 blendshapes, calls, gemini>>

NextSeries == NewRequest \/ SeriesSentiment \/ SeriesEmotion \/ SeriesFace \/ Respond

SpecSeries == SeriesInit /\ [][NextSeries]_vars

\* ------------------------------------------------- the chat service
\* Module import of gemini_service: no client and no session.
ChatInit ==
  /\ TextUnused /\ VisionUnused /\ NoThreads
  /\ GeminiUnused
  /\ ret = Idle

\* The client is initialised only while _genai is None, a session is created
\* only while there is none, and send_message runs only on a session.
GenaiInits(genai) == IF genai = "None" THEN GenaiInitOutcomes ELSE {"no_init"}
ChatCreates(genai, chat_session, init) ==
  IF _get_genai(genai, init).value # "None" /\ chat_session = "None"
  THEN {"ok", "raise"} ELSE {"no_create"}
ChatSends(chat) == IF chat # "None" THEN SendOutcomes ELSE {NotCalled}

\* POST /chat: generate_chat_response(message, emotion_context, is_crisis),
\* while the session has room for the message.
GenerateChatResponse ==
  /\ ret = Idle
  /\ \E message \in ChatMessages, emotion_context \in EmotionContexts, is_crisis \in BOOLEAN :
       \E init \in (IF is_crisis THEN {"no_init"} ELSE GenaiInits(_genai)) :
         \E create \in (IF is_crisis THEN {"no_create"}
                        ELSE ChatCreates(_genai, _chat_session, init)) :
           \E send \in (IF is_crisis THEN {NotCalled}
                        ELSE ChatSends(_get_or_create_chat(_genai, _chat_session,
                                                           init, create).value)) :
             LET r == generate_chat_response(message, emotion_context, is_crisis,
                                             _genai, _chat_session, init, create, send)
             IN  /\ Len(chat_history) + Len(r.sent) <= MaxSent
                 /\ ret' = [fn |-> "generate_chat_response", message |-> message,
                            emotion_context |-> emotion_context, is_crisis |-> is_crisis,
                            before |-> gemini, out |-> r]
                 /\ _genai' = r.genai
                 /\ _chat_session' = r.chat_session
                 /\ chat_history' = chat_history \o r.sent
  /\ UNCHANGED <<text, transformers, pipelines, engine, prev, vision, threads>>

\* POST /reset-chat: reset_chat_session() drops the session.
ResetChatSession ==
  /\ ret = Idle
  /\ _chat_session # "None"
  /\ _chat_session' = "None"
  /\ chat_history' = <<>>
  /\ UNCHANGED <<text, transformers, pipelines, engine, prev, vision, threads, _genai, ret>>

NextChat == GenerateChatResponse \/ ResetChatSession \/ Respond

SpecChat == ChatInit /\ [][NextChat]_vars

\* --------------------------------------------- texts beyond 512 characters
LongInit ==
  /\ VisionUnused /\ NoThreads
  /\ text \in LongTexts
  /\ transformers \in {"installed", "absent"}
  /\ sentiment_pipeline = "None"
  /\ emotion_pipeline = "None"
  /\ sentiment_model = "None"
  /\ emotion_model = "None"
  /\ crisis_model = "None"
  /\ ret = Idle
  /\ prev = Idle
  /\ GeminiUnused

NextLong == AnalyzeSentimentCall \/ AnalyzeEmotionCall \/ DetectCrisisCall \/ Respond

SpecLong == LongInit /\ [][NextLong]_vars

\* ============================================================== claims
\* The claims state their cases on the text itself, character by character,
\* and not through the operators of the model above.

\* Some character of t is not whitespace.
NonBlank(t) == \E i \in 1..Len(t) : t[i] \notin Whitespace

\* k occurs in s, letter case ignored.
ContainsIgnoreCase(s, k) ==
  \E i \in 1..(Len(s) - Len(k) + 1) :
    \A j \in 1..Len(k) : LowerChar(s[i + j - 1]) = LowerChar(k[j])

EqualIgnoreCase(a, b) ==
  Len(a) = Len(b) /\ \A j \in 1..Len(a) : LowerChar(a[j]) = LowerChar(b[j])

HasCrisisKeyword(t) ==
  \E n \in 1..Len(CRISIS_KEYWORDS) : ContainsIgnoreCase(t, CRISIS_KEYWORDS[n])

\* The emotion_result is absent, or its label is a string.
LabelIsString(emotion_result) ==
  emotion_result = NoEmotionResult \/ emotion_result.emotion # PyNone

\* The emotion_result is present with a high-risk label and a confidence over 0.7.
HighRisk(emotion_result) ==
  /\ emotion_result # NoEmotionResult
  /\ emotion_result.emotion # PyNone
  /\ \E l \in {s_fear, s_sadness, s_disgust} : EqualIgnoreCase(emotion_result.emotion, l)
  /\ emotion_result.confidence > 70

\* The emotion predictor, when it was called, gave only string labels.
PredictorLabelsAreStrings(eout) ==
  eout.kind \in {"list", "single"} =>
    \A i \in 1..Len(eout.entries) : eout.entries[i].label # PyNone

\* C1: a non-blank text that contains a crisis keyword, letter case ignored,
\* is flagged is_crisis=true by detect_crisis for every emotion_result (absent,
\* non-risk, high-risk) and by analyze_text_complete in every availability
\* state of the sentiment and emotion predictors (absent, failed to load,
\* raising, available).
C1_KeywordAlwaysFlagsCrisis ==
  /\ ( /\ ret.fn = "detect_crisis"
       /\ NonBlank(text) /\ HasCrisisKeyword(text)
       /\ LabelIsString(ret.emotion_result) )
     => ~ret.out.raised /\ ret.out.value.is_crisis = TRUE
  /\ ( /\ ret.fn = "analyze_text_complete"
       /\ NonBlank(text) /\ HasCrisisKeyword(text)
       /\ PredictorLabelsAreStrings(ret.eout) )
     => ~ret.out.raised /\ ret.out.value.is_crisis = TRUE

\* A mixed-case keyword is flagged while the emotion model failed to load and
\* the sentiment predictor answered.
C1_Witness ==
  /\ ret.fn = "analyze_text_complete"
  /\ HasCrisisKeyword(text) /\ ~Contains(text, CRISIS_KEYWORDS[1])
  /\ ret.out.emotion_cause = "load_error"
  /\ ret.out.sentiment_cause = "ok"
  /\ ~ret.out.raised /\ ret.out.value.is_crisis

\* ---- AIEngine
EngineHasKeyword(t) ==
  \E n \in 1..Len(crisis_keywords) : ContainsIgnoreCase(t, crisis_keywords[n])

\* C2: AIEngine.analyze_text checks the keyword lexicon on every non-empty
\* text, also with a crisis model loaded: a text that contains an entry of
\* crisis_keywords has is_crisis=true even when the model predicts negative.
C2_EngineKeywordsNeverSuppressed ==
  ( /\ ret.fn = "AIEngine.analyze_text"
    /\ text # <<>> /\ EngineHasKeyword(text) )
  => ret.out.is_crisis = TRUE

\* C3: a crisis model that is loaded and raises in predict gives the is_crisis
\* of the keyword fallback, as a crisis model that is not loaded does.
C3_RaisingModelIsUnavailableModel ==
  ( /\ ret.fn = "AIEngine.analyze_text"
    /\ crisis_model = "model" /\ ret.cout.kind = "raise" )
  => ret.out.is_crisis = EngineHasKeyword(text)

\* C4: for a non-blank text detect_crisis returns the decision table over
\* (keyword matched, emotion signal matched, len(text) > 50).
C4_DecisionTable ==
  ( /\ ret.fn = "detect_crisis"
    /\ NonBlank(text)
    /\ LabelIsString(ret.emotion_result) )
  => /\ ~ret.out.raised
     /\ LET keyword == HasCrisisKeyword(text)
            emotion == HighRisk(ret.emotion_result)
            v == ret.out.value
        IN  <<v.is_crisis, v.confidence, v.source>> =
              IF keyword /\ emotion THEN <<TRUE, 95, "combined">>
              ELSE IF keyword THEN <<TRUE, 85, "keyword">>
              ELSE IF emotion /\ Len(text) > 50 THEN <<TRUE, 60, "emotion">>
              ELSE <<FALSE, 10, "none">>

\* An emotion signal alone on a text of exactly 50 characters is not flagged.
C4_Witness ==
  /\ ret.fn = "detect_crisis"
  /\ Len(text) = 50 /\ NonBlank(text) /\ ~HasCrisisKeyword(text)
  /\ HighRisk(ret.emotion_result)
  /\ ret.out.value.source = "none"

\* C5: for an empty or whitespace-only text detect_crisis returns
\* is_crisis=false, confidence 0.0, no triggers and source 'empty', whatever
\* the emotion_result, and neither the keyword scan nor the emotion check ran.
C5_EmptyTextShortCircuit ==
  (ret.fn = "detect_crisis" /\ ~NonBlank(text))
  => /\ ~ret.out.raised
     /\ ret.out.value = [is_crisis |-> FALSE, confidence |-> 0, triggers |-> <<>>,
                         source |-> "empty"]
     /\ ret.out.steps = <<>>

\* A whitespace-only text with an emotion_result whose label is None.
C5_Witness ==
  /\ ret.fn = "detect_crisis"
  /\ text # <<>> /\ ~NonBlank(text)
  /\ ret.emotion_result # NoEmotionResult /\ ret.emotion_result.emotion = PyNone
  /\ ret.out.value.source = "empty"

\* C6: AIEngine.analyze_text returns is_crisis=false and confidence 0.0 for
\* every empty or whitespace-only text, whatever models are loaded and
\* whatever a loaded crisis model predicts.
C6_EngineBlankTextNotCrisis ==
  (ret.fn = "AIEngine.analyze_text" /\ ~NonBlank(text))
  => ret.out.is_crisis = FALSE /\ ret.out.confidence = 0

\* C7: in every result of detect_crisis and of analyze_text_complete,
\* is_crisis=true implies a non-empty trigger sequence.
C7_CrisisHasTrigger ==
  /\ (ret.fn = "detect_crisis" /\ ~ret.out.raised /\ ret.out.value.is_crisis)
     => Len(ret.out.value.triggers) > 0
  /\ (ret.fn = "analyze_text_complete" /\ ~ret.out.raised /\ ret.out.value.is_crisis)
     => Len(ret.out.value.crisis_triggers) > 0

\* analyze_text_complete flags a text on the emotion signal alone.
C7_Witness ==
  /\ ret.fn = "analyze_text_complete"
  /\ ~ret.out.raised /\ ret.out.value.is_crisis
  /\ ret.out.value.sources.crisis = "emotion"
  /\ Len(ret.out.value.crisis_triggers) = 1

\* Every score a called predictor returned lies in [0,1].
PredictorScoresInRange(sout, eout) ==
  /\ sout.kind = "ok" => sout.score \in 0..100
  /\ eout.kind \in {"list", "single"} =>
       \A i \in 1..Len(eout.entries) : eout.entries[i].score \in 0..100

\* C8: when the available predictors return scores in [0,1], sentiment_score,
\* emotion_confidence and crisis_confidence of every analyze_text_complete
\* result lie in [0,1], for every text and every predictor state.
C8_ScoresInUnitInterval ==
  ( /\ ret.fn = "analyze_text_complete"
    /\ ~ret.out.raised
    /\ PredictorScoresInRange(ret.sout, ret.eout) )
  => /\ ret.out.value.sentiment_score \in 0..100
     /\ ret.out.value.emotion_confidence \in 0..100
     /\ ret.out.value.crisis_confidence \in 0..100

\* The sentiment predictor raised and the emotion predictor answered.
C8_Witness ==
  /\ ret.fn = "analyze_text_complete"
  /\ ~ret.out.raised
  /\ ret.out.sentiment_cause = "raised"
  /\ ret.out.emotion_cause = "ok"
  /\ PredictorScoresInRange(ret.sout, ret.eout)
  /\ ret.out.value.is_crisis

\* C9: analyze_text_complete never raises, whatever the predictors do (absent,
\* failed to load, raising, or returning a malformed label or score).
C9_AnalyzeTextCompleteNeverRaises ==
  ret.fn = "analyze_text_complete" => ~ret.out.raised

\* C10: for the same text analyze_sentiment (and analyze_emotion) returns the
\* identical result, with source 'fallback', whether the package is absent,
\* the model failed to load, or the loaded predictor raised: a call that took
\* a fallback path returns what the previous such call of the same function
\* returned for this text.
C10_FallbackIdenticalForEveryCause ==
  TookFallback(ret)
  => /\ ret.out.value.source = "fallback"
     /\ (prev # Idle /\ prev.fn = ret.fn) => ret.out.value = prev.value

\* The predictor raised, after a call in a process without the package.
C10_Witness ==
  /\ TookFallback(ret) /\ ret.out.cause = "raised"
  /\ prev # Idle /\ prev.fn = ret.fn /\ prev.cause = "absent"
  /\ ret.out.value.source = "fallback"
  /\ ret.out.value = prev.value

\* The call found no usable predictor handle: the package is absent, the
\* model failed to load on this call, or the handle is the cached "failed".
PredictorUnavailable(r) ==
  r.fn \in {"analyze_sentiment", "analyze_emotion"}
  /\ r.out.cause \in {"absent", "load_error", "unavailable"}

\* The number of keywords of the i-th emotion category that occur in t.
CategoryHits(t, i) ==
  Cardinality({k \in 1..Len(emotion_keywords[i].keywords) :
                 ContainsIgnoreCase(t, emotion_keywords[i].keywords[k])})

\* The i-th category has at least as many hits as every other one, and more
\* than every category declared before it.
LeadsByCount(t, i) ==
  /\ CategoryHits(t, i) > 0
  /\ \A j \in 1..Len(emotion_keywords) :
       /\ CategoryHits(t, j) <= CategoryHits(t, i)
       /\ j < i => CategoryHits(t, j) < CategoryHits(t, i)

\* C11 as stated: with the emotion predictor unavailable analyze_emotion
\* returns the category with strictly more lexicon hits than every other one,
\* the first declared of the leading categories on a tie, and 'neutral' when
\* no category has a hit.
C11_MostHitsWins ==
  (ret.fn = "analyze_emotion" /\ PredictorUnavailable(ret))
  => /\ \A i \in 1..Len(emotion_keywords) :
          LeadsByCount(text, i) => ret.out.value.emotion = emotion_keywords[i].emotion
     /\ (\A i \in 1..Len(emotion_keywords) : CategoryHits(text, i) = 0)
          => ret.out.value.emotion = s_neutral

\* C11 amended: with the emotion predictor unavailable analyze_emotion returns,
\* with confidence 0.6, the first category in declaration order that has at
\* least one lexicon hit, however many hits the later categories have, and
\* 'neutral' with confidence 0.5 when no category has a hit.
C11_FirstCategoryWithAHit ==
  (ret.fn = "analyze_emotion" /\ PredictorUnavailable(ret))
  => /\ \A i \in 1..Len(emotion_keywords) :
          (CategoryHits(text, i) > 0 /\ \A j \in 1..(i - 1) : CategoryHits(text, j) = 0)
          => /\ ret.out.value.emotion = emotion_keywords[i].emotion
             /\ ret.out.value.confidence = 60
     /\ (\A i \in 1..Len(emotion_keywords) : CategoryHits(text, i) = 0)
          => /\ ret.out.value.emotion = s_neutral
             /\ ret.out.value.confidence = 50

\* The fallback answered 'joy' for a text with one joy hit and two sadness hits.
C11_Witness ==
  /\ ret.fn = "analyze_emotion" /\ PredictorUnavailable(ret)
  /\ CategoryHits(text, 1) = 1 /\ CategoryHits(text, 2) = 2
  /\ ret.out.value.emotion = s_joy /\ ret.out.value.confidence = 60

\* The number of words of the lexicon that occur in the lowercased t.
LexiconHits(t, words) ==
  Cardinality({i \in 1..Len(words) : ContainsIgnoreCase(t, words[i])})

\* C12: with the sentiment predictor unavailable analyze_sentiment returns
\* 'positive' with score 0.6 iff more positive than negative lexicon words
\* occur in the lowercased text, 'negative' with score 0.6 iff fewer, and
\* 'neutral' with score 0.5 on every tie, zero to zero included.
C12_SentimentFallbackByCount ==
  (ret.fn = "analyze_sentiment" /\ PredictorUnavailable(ret))
  => LET pos == LexiconHits(text, positive_words)
         neg == LexiconHits(text, negative_words)
         v == ret.out.value
     IN  /\ (v.label = s_positive /\ v.score = 60) <=> pos > neg
         /\ (v.label = s_negative /\ v.score = 60) <=> neg > pos
         /\ (v.label = s_neutral /\ v.score = 50) <=> pos = neg

\* Two positive words against one negative word: 'positive'.
C12_Witness ==
  /\ ret.fn = "analyze_sentiment" /\ PredictorUnavailable(ret)
  /\ LexiconHits(text, positive_words) = 2
  /\ LexiconHits(text, negative_words) = 1
  /\ ret.out.value.label = s_positive /\ ret.out.value.score = 60

\* C18: with the predictor unavailable, two calls of analyze_sentiment (and two
\* calls of analyze_emotion) on the same text return the same label and the
\* same score, whatever was called and whatever the handles became in between.
C18_FallbackDeterministic ==
  (PredictorUnavailable(ret) /\ prev # Idle /\ prev.fn = ret.fn
     /\ prev.cause \in {"absent", "load_error", "unavailable"})
  => IF ret.fn = "analyze_sentiment"
     THEN /\ ret.out.value.label = prev.value.label
          /\ ret.out.value.score = prev.value.score
     ELSE /\ ret.out.value.emotion = prev.value.emotion
          /\ ret.out.value.confidence = prev.value.confidence

\* analyze_emotion answers 'sadness' from the cached failure as it did when the
\* load failed, and the sentiment predictor has been loaded by a call since
\* the process started.
C18_Witness ==
  /\ ret.fn = "analyze_emotion" /\ ret.out.cause = "unavailable"
  /\ prev # Idle /\ prev.fn = ret.fn /\ prev.cause = "load_error"
  /\ sentiment_pipeline = "pipe"
  /\ ret.out.value.emotion = s_sadness /\ prev.value.emotion = s_sadness
  /\ ret.out.value.confidence = prev.value.confidence

\* The trigger is an emotion trigger, 'emotion:<label>'.
IsEmotionTrigger(t) ==
  Len(t) >= Len(s_emotion_) /\ \A j \in 1..Len(s_emotion_) : t[j] = s_emotion_[j]

\* The trigger is the keyword trigger of the n-th entry of CRISIS_KEYWORDS.
IsKeywordTrigger(t, n) == t = s_keyword_ \o CRISIS_KEYWORDS[n]

\* C19: on a non-blank text detect_crisis appends an emotion trigger to its
\* trigger list iff the emotion label, letter case ignored, is fear, sadness
\* or disgust and the emotion confidence is strictly greater than 0.7; a
\* confidence of exactly 0.7, a label outside the set or an absent
\* emotion_result gives no emotion trigger, and a crisis verdict reports the
\* emotion trigger under the same condition.
C19_EmotionTriggerIffHighRisk ==
  (ret.fn = "detect_crisis" /\ NonBlank(text))
  => LET appended == \E i \in 1..Len(ret.out.collected) :
                        IsEmotionTrigger(ret.out.collected[i])
     IN  /\ appended <=> HighRisk(ret.emotion_result)
         /\ (~ret.out.raised /\ ret.out.value.is_crisis)
            => ((\E i \in 1..Len(ret.out.value.triggers) :
                    IsEmotionTrigger(ret.out.value.triggers[i]))
                <=> HighRisk(ret.emotion_result))

\* The label 'Fear' with confidence 0.71 on a text without keywords: the one
\* trigger collected is 'emotion:fear'.
C19_Witness ==
  /\ ret.fn = "detect_crisis" /\ NonBlank(text) /\ ~HasCrisisKeyword(text)
  /\ ret.emotion_result # NoEmotionResult
  /\ ret.emotion_result.emotion = s_Fear /\ ret.emotion_result.confidence = 71
  /\ ret.out.collected = << s_emotion_ \o s_fear >>

\* C20: the triggers returned by detect_crisis are the keyword triggers of the
\* matched keywords in the order of CRISIS_KEYWORDS, whatever the order of the
\* keywords in the text, followed by the emotion trigger when there is one.
C20_TriggersInLexiconOrder ==
  (ret.fn = "detect_crisis" /\ ~ret.out.raised)
  => LET t == ret.out.value.triggers
         isKeyword(i) == \E n \in 1..Len(CRISIS_KEYWORDS) : IsKeywordTrigger(t[i], n)
         index(i) == CHOOSE n \in 1..Len(CRISIS_KEYWORDS) : IsKeywordTrigger(t[i], n)
     IN  /\ \A i \in 1..Len(t) : isKeyword(i) \/ (IsEmotionTrigger(t[i]) /\ i = Len(t))
         /\ \A i, j \in 1..Len(t) :
              (i < j /\ isKeyword(i) /\ isKeyword(j)) => index(i) < index(j)
         /\ ret.out.value.is_crisis
            => \A n \in 1..Len(CRISIS_KEYWORDS) :
                 ContainsIgnoreCase(text, CRISIS_KEYWORDS[n])
                 <=> \E i \in 1..Len(t) : IsKeywordTrigger(t[i], n)

\* 'worthless' stands before 'Suicide' in the text and after it in the
\* triggers; the emotion trigger is the last one.
C20_Witness ==
  /\ ret.fn = "detect_crisis" /\ ~ret.out.raised
  /\ text = w_worthless \o w_Suicide
  /\ Len(ret.out.value.triggers) = 3
  /\ IsKeywordTrigger(ret.out.value.triggers[1], 1)
  /\ ret.out.value.triggers[2] = s_keyword_ \o Lower(w_worthless)
  /\ IsEmotionTrigger(ret.out.value.triggers[3])

\* ---- vision_service
\* The score the list gives for a category: the one of its last blendshape of
\* that name, 0 when the list has none.
ScoreOf(b, name) ==
  IF \A i \in 1..Len(b) : b[i].category_name # name THEN 0
  ELSE LET last == CHOOSE i \in 1..Len(b) :
                     /\ b[i].category_name = name
                     /\ \A j \in (i + 1)..Len(b) : b[j].category_name # name
       IN  b[last].score

\* The rules of the cascade in their order, in thousandths and ten-thousandths.
Cascade(b) ==
  LET smile == (ScoreOf(b, "mouthSmileLeft") + ScoreOf(b, "mouthSmileRight")) \div 2
      frown == (ScoreOf(b, "mouthFrownLeft") + ScoreOf(b, "mouthFrownRight")) \div 2
      brow_down == (ScoreOf(b, "browDownLeft") + ScoreOf(b, "browDownRight")) \div 2
      eye_wide == (ScoreOf(b, "eyeWideLeft") + ScoreOf(b, "eyeWideRight")) \div 2
      eye_squint == (ScoreOf(b, "eyeSquintLeft") + ScoreOf(b, "eyeSquintRight")) \div 2
      brow_up == ScoreOf(b, "browInnerUp")
      jaw_open == ScoreOf(b, "jawOpen")
  IN  << [when |-> smile > 300 /\ eye_squint > 200, emotion |-> "happy",
          confidence |-> IF 5000 + 10 * smile > 10000 THEN 10000 ELSE 5000 + 10 * smile],
         [when |-> frown > 300, emotion |-> "sad", confidence |-> 6000 + 3 * frown],
         [when |-> brow_down > 300, emotion |-> "angry",
          confidence |-> 6000 + 3 * brow_down],
         [when |-> jaw_open > 400 /\ eye_wide > 300, emotion |-> "surprised",
          confidence |-> 7000],
         [when |-> brow_up > 300 /\ eye_wide > 200, emotion |-> "fearful",
          confidence |-> 6000],
         [when |-> smile > 150, emotion |-> "happy", confidence |-> 5000 + 5 * smile],
         [when |-> frown > 150, emotion |-> "sad", confidence |-> 5000],
         [when |-> TRUE, emotion |-> "neutral", confidence |-> 5000] >>

\* C13: _blendshapes_to_emotion returns the emotion and the confidence of the
\* first rule of the cascade whose condition holds, a missing blendshape read
\* as 0; smile 0.5 with squint 0.3 gives happy 1.0 and a face with every
\* blendshape at 0 gives neutral 0.5.
C13_FirstMatchWins ==
  ret.fn = "_blendshapes_to_emotion"
  => LET rules == Cascade(blendshapes)
         first == CHOOSE i \in 1..Len(rules) :
                    rules[i].when /\ \A j \in 1..(i - 1) : ~rules[j].when
     IN  /\ ret.out.emotion = rules[first].emotion
         /\ ret.out.confidence = rules[first].confidence
         /\ blendshapes = SmilingFace
            => ret.out = [emotion |-> "happy", confidence |-> 10000]
         /\ (\A i \in 1..Len(blendshapes) : blendshapes[i].score = 0)
            => ret.out = [emotion |-> "neutral", confidence |-> 5000]

\* The conditions of 'surprised' and 'fearful' both hold and the earlier rule,
\* 'surprised', gave the result.
C13_Witness ==
  /\ ret.fn = "_blendshapes_to_emotion"
  /\ Cascade(blendshapes)[4].when /\ Cascade(blendshapes)[5].when
  /\ \A j \in 1..3 : ~Cascade(blendshapes)[j].when
  /\ ret.out = [emotion |-> "surprised", confidence |-> 7000]

\* The call had no landmarker: the module was initialised without one, or the
\* creation on this call did not succeed.
LandmarkerUnavailable(r) ==
  \/ r.before = <<TRUE, "None">>
  \/ r.before[1] = FALSE /\ r.load # "ok"

\* landmarker.detect ran and returned at least one face.
FaceFound(r) ==
  r.det # NotCalled /\ r.det.kind = "faces" /\ Len(r.det.face_blendshapes) > 0

\* landmarker.detect ran and returned no face.
NoFaceFound(r) ==
  r.det # NotCalled /\ r.det.kind = "faces" /\ Len(r.det.face_blendshapes) = 0

\* C14: when no face is detected or the landmarker is unavailable,
\* detect_face_emotion returns face_detected=false, 'neutral' and confidence
\* 0.0; face_detected=true is returned only for a face that was detected and
\* classified, with the confidence of the classifier, which is not 0.0.
C14_NoFaceIsNotADetectedFace ==
  ret.fn = "detect_face_emotion"
  => LET v == ret.out.value IN
     /\ (NoFaceFound(ret) \/ LandmarkerUnavailable(ret))
        => (~v.face_detected /\ v.emotion = "neutral" /\ v.confidence = 0)
     /\ v.face_detected
        => /\ FaceFound(ret) /\ ~LandmarkerUnavailable(ret)
           /\ ret.out.steps = <<"decode", "detect", "classify">>
           /\ v.confidence >= 5000
     /\ ~v.face_detected => v.confidence = 0

\* A detected neutral face: face_detected=true with confidence 0.5.
C14_Witness ==
  /\ ret.fn = "detect_face_emotion"
  /\ FaceFound(ret)
  /\ ret.out.value.face_detected
  /\ ret.out.value.emotion = "neutral" /\ ret.out.value.confidence = 5000

\* The string holds no picture where the decoder looks: after its first
\* comma, or in the whole string when it has no comma.
CannotBeDecoded(img) ==
  (IF Len(img) > 1 THEN img[2] ELSE img[1]) # "picture"

\* C15 as stated: every call of detect_face_emotion with an image that cannot
\* be decoded returns face_detected=false with source 'decode_error', whether
\* the landmarker is loaded, not yet loaded or failed to load.
C15_UndecodableIsDecodeError ==
  (ret.fn = "detect_face_emotion" /\ CannotBeDecoded(image))
  => /\ ~ret.out.value.face_detected
     /\ ret.out.value.source = "decode_error"

\* C15 amended: every call of detect_face_emotion with an image that cannot be
\* decoded returns face_detected=false, 'neutral' and confidence 0.0 in every
\* state of the landmarker; the source is 'decode_error' when the call has a
\* landmarker and 'error' when the landmarker is unavailable.
C15_UndecodableIsNeverAFace ==
  (ret.fn = "detect_face_emotion" /\ CannotBeDecoded(image))
  => LET v == ret.out.value IN
     /\ ~v.face_detected /\ v.emotion = "neutral" /\ v.confidence = 0
     /\ v.source = IF LandmarkerUnavailable(ret) THEN "error" ELSE "decode_error"

\* An undecodable image given to a landmarker loaded by an earlier call.
C15_Witness ==
  /\ ret.fn = "detect_face_emotion" /\ CannotBeDecoded(image)
  /\ ret.before = <<TRUE, "landmarker">>
  /\ ~ret.out.value.face_detected
  /\ ret.out.value.source = "decode_error"

\* ---- first use from threads
\* C16: when several callers trigger the first use of the sentiment or the
\* emotion predictor at the same time, the model of a modality is loaded once.
C16_ModelLoadedOnce ==
  \A which \in Modalities : loads[which] <= 1

\* C17: a call of _get_face_landmarker that starts after the module was marked
\* initialised by a call whose creation of the landmarker succeeds obtains the
\* landmarker, and its request is not answered 'Face landmarker not available'.
C17_RacingCallObtainsLandmarker ==
  \A t \in DOMAIN calls :
    ( /\ calls[t].pc \in {"returned", "answered"}
      /\ calls[t].raced
      /\ face_landmarker = "landmarker" )
    => calls[t].value = "landmarker"

\* ---- truncation
\* p is the text t cut after its first 512 characters.
IsFirst512(p, t) ==
  /\ Len(p) = (IF Len(t) > 512 THEN 512 ELSE Len(t))
  /\ \A i \in 1..Len(p) : p[i] = t[i]

\* C21: the sentiment and the emotion predictor are given the first 512
\* characters of the text and nothing more, while the fallback heuristics and
\* the crisis keyword scan read the whole text: a lexicon word or a crisis
\* keyword that lies wholly behind position 512 is matched.
C21_TruncationOnlyForPredictors ==
  /\ (ret.fn \in {"analyze_sentiment", "analyze_emotion"}
        /\ ret.out.cause \in {"ok", "raised"})
     => IsFirst512(ret.out.given, text)
  /\ (ret.fn = "analyze_sentiment" /\ TookFallback(ret))
     => LET pos == LexiconHits(text, positive_words)
            neg == LexiconHits(text, negative_words)
        IN  ret.out.value.label = (IF pos > neg THEN s_positive
                                   ELSE IF neg > pos THEN s_negative ELSE s_neutral)
  /\ (ret.fn = "analyze_emotion" /\ TookFallback(ret))
     => \A i \in 1..Len(emotion_keywords) :
          (CategoryHits(text, i) > 0 /\ \A j \in 1..(i - 1) : CategoryHits(text, j) = 0)
          => ret.out.value.emotion = emotion_keywords[i].emotion
  /\ (ret.fn = "detect_crisis" /\ ~ret.out.raised)
     => \A n \in 1..Len(CRISIS_KEYWORDS) :
          ContainsIgnoreCase(text, CRISIS_KEYWORDS[n])
          => /\ ret.out.value.is_crisis
             /\ \E i \in 1..Len(ret.out.value.triggers) :
                  IsKeywordTrigger(ret.out.value.triggers[i], n)

\* The emotion predictor was given 512 characters without a lexicon word and
\* raised; the fallback found 'sad' behind them.
C21_Witness ==
  /\ ret.fn = "analyze_emotion" /\ ret.out.cause = "raised"
  /\ Len(text) > 512
  /\ IsFirst512(ret.out.given, text)
  /\ \A i \in 1..Len(emotion_keywords) : CategoryHits(ret.out.given, i) = 0
  /\ ret.out.value.emotion = s_sadness

\* The places of x in the sequence seq.
Places(seq, x) == {i \in 1..Len(seq) : seq[i] = x}

\* x occurs exactly once in seq.
Once(seq, x) == Cardinality(Places(seq, x)) = 1

\* Every occurrence of x in seq lies after the one of a and before the one of b.
Between(seq, x, a, b) ==
  \A i \in Places(seq, x) :
    /\ \A j \in Places(seq, a) : j < i
    /\ \A j \in Places(seq, b) : i < j

\* C22: one analyze_text_complete request resolves the sentiment, then the
\* emotion, then the crisis verdict; the sentiment predictor and the emotion
\* predictor are each invoked at most once, inside their own step, and nothing
\* after the start of detect_crisis is a predictor call; the emotion verdict
\* handed to detect_crisis is the one reported as emotion/emotion_confidence,
\* and the crisis source reported agrees with that verdict.
C22_OneRequestOrderAndSingleVerdict ==
  ret.fn = "analyze_text_complete"
  => LET trace == ret.out.trace
         predictors == {"sentiment_pipeline", "emotion_pipeline"}
     IN  /\ Once(trace, "analyze_sentiment") /\ Once(trace, "analyze_emotion")
         /\ Once(trace, "detect_crisis")
         /\ trace[1] = "analyze_sentiment"
         /\ Between(trace, "analyze_emotion", "analyze_sentiment", "detect_crisis")
         /\ Cardinality(Places(trace, "sentiment_pipeline")) <= 1
         /\ Cardinality(Places(trace, "emotion_pipeline")) <= 1
         /\ Between(trace, "sentiment_pipeline", "analyze_sentiment", "analyze_emotion")
         /\ Between(trace, "emotion_pipeline", "analyze_emotion", "detect_crisis")
         /\ \A i \in 1..Len(trace) :
              (\E j \in Places(trace, "detect_crisis") : j < i) => trace[i] \notin predictors
         /\ ~ret.out.raised
            => LET v == ret.out.value
                   reported == [emotion |-> v.emotion, confidence |-> v.emotion_confidence]
               IN  /\ NonBlank(text)
                      => ((v.sources.crisis \in {"emotion", "combined"})
                          <=> (HighRisk(reported)
                               /\ (HasCrisisKeyword(text) \/ Len(text) > EmotionLengthGate)))
                   /\ ret.out.consumed # NoEmotionResult
                   /\ ret.out.consumed.emotion = v.emotion
                   /\ ret.out.consumed.confidence = v.emotion_confidence

\* Both predictors are invoked, the emotion predictor's verdict is high-risk
\* and it alone makes the request a crisis.
C22_Witness ==
  /\ ret.fn = "analyze_text_complete"
  /\ ~ret.out.raised
  /\ ret.out.trace = <<"analyze_sentiment", "sentiment_pipeline", "analyze_emotion",
                       "emotion_pipeline", "detect_crisis", "keywords", "emotion">>
  /\ ret.out.value.emotion = s_sadness
  /\ ret.out.value.sources.crisis = "emotion"

\* C23: over a series of calls in one process the model load of each modality
\* (sentiment pipeline, emotion pipeline, face landmarker) is attempted at most
\* once; a call that finds a loaded handle uses that handle and leaves it in
\* place, and a call that finds a failed load answers from the fallback (text)
\* or with the 'landmarker not available' result (face) and leaves the globals
\* as they are.
C23_LoadAttemptedAtMostOnce ==
  /\ \A m \in DOMAIN loads : loads[m] <= 1
  /\ (ret.fn \in {"analyze_sentiment", "analyze_emotion"} /\ NonBlank(text))
     => /\ ret.before = "pipe"
           => (ret.out.handle = "pipe" /\ ret.out.cause \in {"ok", "raised"}
               /\ ret.out.given # PyNone)
        /\ ret.before = "failed"
           => (ret.out.handle = "failed" /\ ret.out.cause = "unavailable"
               /\ ret.out.given = PyNone /\ ret.out.value.source = "fallback")
  /\ (ret.fn = "detect_face_emotion" /\ ret.before[1])
     => /\ ret.out.obtained = ret.before[2]
        /\ <<ret.out.initialized, ret.out.landmarker>> = ret.before
        /\ ret.before[2] = "None"
           => (ret.out.steps = <<>> /\ ret.out.value.source = "error"
               /\ ~ret.out.value.face_detected)
        /\ ret.before[2] # "None" => ret.out.steps # <<>>

\* Every modality has had its one load attempt, the sentiment model is loaded,
\* the landmarker is not, and a later emotion call finds the failed handle.
C23_Witness ==
  /\ loads = [sentiment |-> 1, emotion |-> 1, landmarker |-> 1]
  /\ sentiment_pipeline = "pipe"
  /\ landmarker_initialized /\ face_landmarker = "None"
  /\ ret.fn = "analyze_emotion"
  /\ ret.before = "failed"
  /\ ret.out.value.source = "fallback"
  /\ prev # Idle /\ prev.fn = "analyze_emotion" /\ prev.cause = "load_error"

\* C24: for every mapping of blendshape scores, scores outside [0,1] included,
\* the confidence returned by _blendshapes_to_emotion lies in [0,1].
C24_ConfidenceInUnitInterval ==
  ret.fn = "_blendshapes_to_emotion"
  => (0 <= ret.out.confidence /\ ret.out.confidence <= 10000)

\* C25: when the emotion predictor succeeds, analyze_emotion returns, for a list
\* of (label, score) entries, an entry of maximal score as emotion/confidence
\* and the label->score map of all entries as all_emotions, and for a single
\* (label, score) that label and score with a one-entry map; the source is
\* 'huggingface' in both cases.
C25_BothPredictorShapes ==
  (ret.fn = "analyze_emotion" /\ ret.out.given # PyNone
   /\ ret.eout.kind \in {"list", "single"} /\ ret.eout.entries # <<>>)
  => LET e == ret.eout.entries
         v == ret.out.value
     IN  /\ ret.out.cause = "ok"
         /\ v.source = "huggingface"
         /\ \E i \in 1..Len(e) : e[i].label = v.emotion /\ e[i].score = v.confidence
         /\ \A i \in 1..Len(e) : e[i].score <= v.confidence
         /\ DOMAIN v.all_emotions = {e[i].label : i \in 1..Len(e)}
         /\ \A l \in DOMAIN v.all_emotions :
              \E i \in 1..Len(e) : e[i].label = l /\ e[i].score = v.all_emotions[l]
         /\ ret.eout.kind = "single"
            => (v.emotion = e[1].label /\ v.confidence = e[1].score
                /\ Cardinality(DOMAIN v.all_emotions) = 1)

\* The predictor gave a list whose top entry is not the first one.
C25_Witness ==
  /\ ret.fn = "analyze_emotion"
  /\ ret.eout.kind = "list"
  /\ ret.out.cause = "ok"
  /\ ret.out.value.emotion = s_sadness /\ ret.out.value.confidence = 71
  /\ ret.out.value.all_emotions[s_joy] = 20
  /\ ret.out.value.source = "huggingface"

\* C26: with a crisis model loaded, AIEngine.analyze_text sets is_crisis iff
\* the prediction, as a string, is exactly '1', or is 'true' in any mix of
\* upper and lower case, or is exactly 'crisis'; every other prediction leaves
\* is_crisis false.
C26_PositiveClassStrings ==
  (ret.fn = "AIEngine.analyze_text" /\ crisis_model = "model"
   /\ ret.cout # NotCalled /\ ret.cout.kind = "ok")
  => (ret.out.is_crisis
      <=> \/ ret.cout.str = <<"1">>
          \/ /\ Len(ret.cout.str) = 4
             /\ \A i \in 1..4 :
                  ret.cout.str[i] \in {<<"t", "r", "u", "e">>[i], <<"T", "R", "U", "E">>[i]}
          \/ ret.cout.str = <<"c", "r", "i", "s", "i", "s">>)

\* The model answered 'True' on a text without a crisis keyword.
C26_Witness ==
  /\ ret.fn = "AIEngine.analyze_text"
  /\ crisis_model = "model"
  /\ ret.cout # NotCalled /\ ret.cout.kind = "ok" /\ ret.cout.str = <<"T", "r", "u", "e">>
  /\ ~EngineHasKeyword(text)
  /\ ret.out.is_crisis

\* C27: in every result of detect_crisis the source tag, the flag and the
\* triggers agree: 'combined' iff the triggers hold a keyword trigger and an
\* emotion trigger, 'keyword' iff they hold keyword triggers only, 'emotion' iff
\* they are exactly one emotion trigger; is_crisis is false iff the source is
\* 'none' or 'empty', and then the triggers are empty, also when a high-risk
\* emotion was held back by the length gate.
C27_SourceFlagTriggersAgree ==
  (ret.fn = "detect_crisis" /\ ~ret.out.raised)
  => LET v == ret.out.value
         n == Len(v.triggers)
         kw == {i \in 1..n : \E k \in 1..Len(CRISIS_KEYWORDS) : IsKeywordTrigger(v.triggers[i], k)}
         em == {i \in 1..n : IsEmotionTrigger(v.triggers[i])}
     IN  /\ kw \cup em = 1..n
         /\ kw \cap em = {}
         /\ v.source \in {"combined", "keyword", "emotion", "none", "empty"}
         /\ v.source = "combined" <=> (kw # {} /\ em # {})
         /\ v.source = "keyword" <=> (kw # {} /\ em = {})
         /\ v.source = "emotion" <=> (kw = {} /\ em = {1} /\ n = 1)
         /\ v.is_crisis <=> v.source \in {"combined", "keyword", "emotion"}
         /\ ~v.is_crisis => v.triggers = <<>>
         /\ (NonBlank(text) /\ HighRisk(ret.emotion_result) /\ ~HasCrisisKeyword(text)
             /\ Len(text) <= 50)
            => (~v.is_crisis /\ v.source = "none" /\ v.triggers = <<>>)

\* A high-risk emotion on a short text without a keyword: the signal matched
\* and the result carries no trigger.
C27_Witness ==
  /\ ret.fn = "detect_crisis" /\ ~ret.out.raised
  /\ NonBlank(text) /\ Len(text) <= 50 /\ ~HasCrisisKeyword(text)
  /\ HighRisk(ret.emotion_result)
  /\ Len(ret.out.collected) = 1
  /\ ret.out.value = [is_crisis |-> FALSE, confidence |-> 10, triggers |-> <<>>,
                      source |-> "none"]

\* C28: when the emotion predictor is unavailable or raises, the result of
\* analyze_text_complete has an emotion confidence of 0.5 or 0.6 and never the
\* crisis source 'emotion' or 'combined'; is_crisis holds iff a crisis keyword
\* occurs in the text, and then the crisis confidence is 0.85.
C28_FallbackEmotionNeverFlags ==
  (ret.fn = "analyze_text_complete" /\ ret.out.emotion_cause \in FallbackCauses)
  => /\ ~ret.out.raised
     /\ LET v == ret.out.value
        IN  /\ v.sources.emotion = "fallback"
            /\ v.emotion_confidence \in {50, 60}
            /\ v.emotion_confidence <= EmotionThreshold
            /\ v.sources.crisis \notin {"emotion", "combined"}
            /\ v.is_crisis <=> HasCrisisKeyword(text)
            /\ v.is_crisis => (v.crisis_confidence = 85 /\ v.sources.crisis = "keyword")
            /\ \A i \in 1..Len(v.crisis_triggers) : ~IsEmotionTrigger(v.crisis_triggers[i])

\* The emotion predictor raised on a text of more than 50 characters that says
\* 'sad': the fallback names sadness and the request is no crisis.
C28_Witness ==
  /\ ret.fn = "analyze_text_complete"
  /\ ret.out.emotion_cause = "raised"
  /\ Len(text) > EmotionLengthGate
  /\ ~ret.out.raised
  /\ ret.out.value.emotion = s_sadness /\ ret.out.value.emotion_confidence = 60
  /\ ~ret.out.value.is_crisis

\* C29: a call generate_chat_response with is_crisis=true returns the fixed
\* crisis-protocol response with source 'crisis_protocol' in every state of the
\* Gemini client and the chat session; it initialises no client, creates no
\* session and hands no message to the session.
C29_CrisisOverride ==
  (ret.fn = "generate_chat_response" /\ ret.is_crisis)
  => /\ ret.out.value.source = "crisis_protocol"
     /\ ret.out.value.response = CRISIS_RESPONSE
     /\ DOMAIN ret.out.value = {"response", "source"}
     /\ ret.out.sent = <<>>
     /\ <<_genai, _chat_session, chat_history>> = ret.before

\* A crisis call before the client was ever initialised.
C29_Witness ==
  /\ ret.fn = "generate_chat_response" /\ ret.is_crisis
  /\ ret.before = <<"None", "None", <<>>>>
  /\ ret.out.value.source = "crisis_protocol"
  /\ _genai = "None" /\ _chat_session = "None"

\* C30: for every blendshape list whose scores all lie in [0,1],
\* _blendshapes_to_emotion returns one of the labels happy, sad, angry,
\* surprised, fearful, neutral and a confidence in [0.5, 1.0]; the confidence
\* of a classified face is therefore never the 0.0 of the 'no face' results.
C30_InRangeScoresGiveConfidenceAboveHalf ==
  (ret.fn = "_blendshapes_to_emotion"
   /\ \A i \in 1..Len(blendshapes) : blendshapes[i].score \in 0..1000)
  => /\ ret.out.emotion \in {"happy", "sad", "angry", "surprised", "fearful", "neutral"}
     /\ ret.out.confidence >= 5000
     /\ ret.out.confidence <= 10000
     /\ ret.out.confidence # 0

\* A smile of 1.0 without squinting eyes: the weak 'happy' rule reaches the
\* confidence 1.0 without a clamp.
C30_Witness ==
  /\ ret.fn = "_blendshapes_to_emotion"
  /\ \A i \in 1..Len(blendshapes) : blendshapes[i].score \in 0..1000
  /\ shapes_get(blendshapes, "eyeSquintLeft") = 0
  /\ ret.out = [emotion |-> "happy", confidence |-> 10000]

====
